---- MODULE Spec2Model ----
(***************************************************************************)
(* A state-machine model of the data-acquisition core of the crypto        *)
(* dashboard backend:                                                      *)
(*   - BinanceRateLimiter            (backend/data/utils/rate_limiter.py)  *)
(*   - DataAggregator                (backend/data/aggregator.py)          *)
(*   - LiquidationMemoryStore and LiquidationWebSocketCollector            *)
(*                         (backend/data/collectors/liquidation_ws.py)     *)
(* Each component has its own next-state relation and specification; the   *)
(* variables of the other components stay at their initial values.         *)
(***************************************************************************)
EXTENDS Integers, Sequences, FiniteSets, TLC

(***************************************************************************)
(* Bounds of the model and program constants.                              *)
(***************************************************************************)
\* RateLimitConfig.safe_weight_limit, scaled down from 960.
SafeWeightLimit == 4
\* RateLimitConfig.max_retries.
MaxRetries == 3
\* RateLimitConfig.retry_delay_base, in milliseconds.
RetryDelayBaseMs == 1000
\* RateLimitConfig.min_delay_ms.
MinDelayMs == 50
\* Length in seconds of the limiter's window (_reset_minute_if_needed).
WindowSeconds == 60
\* Extra second acquire adds to its over-limit wait.
WaitBuffer == 1
\* The clock advances in steps of TimeStep seconds, up to MaxTime.
TimeStep == 20
MaxTime == 80
\* DataAggregator.cache_ttl, in seconds.
CacheTtl == 300
\* The aggregator's clock advances in steps of AggTimeStep seconds, up to MaxAggTime.
AggTimeStep == 150
MaxAggTime == 300
\* LiquidationMemoryStore: capacities (max_size) from 1 to MaxCapacity, and at
\* most MaxAdds calls of add.
MaxCapacity == 2
MaxAdds == 4
\* LiquidationWebSocketCollector: the reconnect delay in seconds, and at most
\* MaxConnects connection attempts and MaxMessages messages in a run.
ReconnectDelay == 5
MaxConnects == 3
MaxMessages == 3
\* The buffer of the collector: BUFFER_SIZE scaled down from 50, FLUSH_INTERVAL
\* in seconds. The collector's clock counts half seconds.
BUFFER_SIZE == 2
FLUSH_INTERVAL == 10
HalfSecondsPerDay == 172800

\* LiquidationFetcher: the TTL of its cache and the TTL marked on a cached
\* fallback, in seconds; the seconds of a day.
HeatCacheTtl == 300
FallbackTtl == 60
SecondsPerDay == 86400

\* get_major_liquidation_zones: the USD value of a major zone, in millions;
\* calculate_complete_heatmap: the number of zones it returns.
MajorZoneUsd == 500
TopZones == 5
\* estimate_liquidation_heatmap: the default price_range_pct, in percent.
DefaultRangePct == 20

\* Callers of execute_with_retry running concurrently on one event loop.
Tasks == {"t1", "t2"}
\* Weights of the endpoints the callers use (WEIGHTS: ticker/price 1, klines 2).
EndpointWeights == {1, 2}

\* Coins of config/sectors.py, one per kind of symbol mapping: BTC is mapped on
\* Binance, OKX and KuCoin, HYPE on OKX and KuCoin (and has a CoinGecko id),
\* ZORA on no exchange (it has a CoinGecko id only).
Coins == {"BTC", "HYPE", "ZORA"}
\* Concurrent fetch_price_with_fallback coroutines, in the order gather creates them.
TaskSeq == <<"f1", "f2">>
FetchTasks == {TaskSeq[i] : i \in 1..Len(TaskSeq)}
\* Concurrent fetch_7d_return coroutines (fetch_multiple_7d_returns gathers them).
R7Tasks == {"r1", "r2"}

\* The liquidation events the stream delivers: force orders of two symbols,
\* both sides, two price levels ($1000 buckets), with the USD value
\* price * quantity, and exchange timestamps in hours.
Symbols == {"BTCUSDT", "ETHUSDT"}
Sides == {"LONG", "SHORT"}
EventTimes == {0, 2}
Events ==
    [symbol : Symbols, side : Sides, timestamp : EventTimes,
     price_level : {95000}, usd_value : {100}]
    \cup [symbol : Symbols, side : Sides, timestamp : EventTimes,
          price_level : {96000}, usd_value : {250}]
\* The messages of the stream: force orders (the value of the key 'o') of a
\* tracked and of an untracked symbol, and a message without the key 'o'.
\* T is the exchange's time in milliseconds.
CollOrders ==
    [s : {"BTCUSDT", "DOGEUSDT"}, S : {"SELL", "BUY"}, p : {96500}, q : {2},
     T : {7200000}]
CollMessages == [o : CollOrders] \cup {[e |-> "listenKeyExpired"]}
\* The readings of the collector's clock, in half seconds: 0 s, 4 s, 10.5 s,
\* 14.5 s, one day, and one day and 10.5 s after its construction.
CollTimes == {0, 8, 21, 29, HalfSecondsPerDay, HalfSecondsPerDay + 21}
\* get_heatmap: the symbols requested, the inputs it fetches, and the readings
\* of datetime.utcnow() in seconds.
HeatSymbols == {"BTCUSDT", "ETHUSDT"}
HeatInputs == {"oi", "funding", "prices", "depth", "funding_history"}
HeatTimes == {0, 30, 90, 299, 300, SecondsPerDay, SecondsPerDay + 30}
\* calculate_fragility_score: open interest and depth in USD, funding rates in
\* units of 0.0001, prices in USD. Every history has a variance whose square
\* root is rational, so that the standard deviation is computed exactly.
FragOpenInterest == {0, 12, 3000, 50000}
FragDepth == {0, 10, 100}
FragFunding == {-5, 1, 2, 30}
FragHistories == {<<>>, <<1, 3>>, <<1, 1, 1>>, <<1, 3, 1, 3>>, <<0, 2, 0, 2, 0, 2>>,
                  <<-4, 4, -4, 4>>}
FragSpot == {0, 1000}
FragPerp == {0, 975, 1000, 2000}
FragInputs ==
    [open_interest_usd : FragOpenInterest, depth_2pct_usd : FragDepth,
     current_funding : FragFunding, funding_7d : FragHistories,
     spot_price : FragSpot, perp_price : FragPerp]
\* calculate_complete_heatmap: prices in USD, open interest and depth in
\* millions of USD, funding rates in units of 0.00001.
HmPrices == {0, 1000, 20000, 95000, 100000}
HmOpenInterest == {0, 4000, 5000, 50000}
HmFunding == {-60, -50, -30, -20, 0, 20, 30, 50, 60}
HmDepth == {0, 100}
HmHistories == {<<>>, <<10, 30, 10, 30>>}
HmSpot == {0, 95000}
\* The price_range_pct of a direct call of estimate_liquidation_heatmap, in
\* percent.
HmRanges == {9, 18, 20, 50}
HmInputs ==
    [current_price : HmPrices, oi_usd : HmOpenInterest, funding_rate : HmFunding,
     depth_2pct : HmDepth, funding_7d : HmHistories, spot_price : HmSpot]
\* The times (datetime.now(), in hours) and window lengths of the queries.
QueryTimes == {2, 3}
QueryHours == {1, 2}

VARIABLES
    \* ---- BinanceRateLimiter ----
    now,                    \* time.time(), in seconds since construction
    current_minute_weight,
    minute_start,
    last_request_time,
    lock,                   \* holder of self._lock, or "free"
    rl_pc,                  \* per task: position inside execute_with_retry
    rl_attempt,             \* per task: the loop variable attempt
    rl_weight,              \* per task: weight of the endpoint it calls
    rl_read,                \* per task: the local now of acquire (line 72)
    rl_wake,                \* per task: time the over-limit sleep ends
    rl_invocations,         \* per task: number of invocations of func
    rl_last_exception,      \* per task: attempt whose exception is held, or -1
    rl_returned,            \* per task: invocation whose result was returned, or -1
    recent,                 \* history: weight admitted, by age in seconds
    rl_wait,                \* the wait_time of the backoff each caller is in, in
                            \* milliseconds (0: none)
    rl_last_write,          \* history: the last write to the budget state: who
                            \* wrote and who held the lock then
    \* ---- DataAggregator ----
    clock,                  \* datetime.now(), in seconds
    price_cache,            \* per coin: the timestamp of its entry, or NoEntry
    fp_pc,                  \* per fetch task: idle, ready, awaiting, done
    fp_coin,                \* per fetch task: the coin argument
    fp_pos,                 \* per fetch task: stage of the chain being awaited
    fp_contacts,            \* per fetch task: sources whose fetcher was called
    fp_result,              \* per fetch task: what the call returned
    fp_afterCall,           \* history: the call began < cache_ttl after another call
    fp_afterQuote,          \* history: the call began < cache_ttl after a quote
    lastCallAt,             \* history, per coin: when the last call began, or -1
    lastQuoteAt,            \* history, per coin: when a call last got a quote, or -1
    batch_pc,               \* fetch_multiple_prices: idle, gathering, done
    batch_coins,            \* its coins argument
    batch_prices,           \* its "prices" output
    batch_errors,           \* its "errors" output
    \* ---- DataAggregator.fetch_multiple_prices_with_fallbacks ----
    fb_pc,                  \* idle, kucoin (the retry loop), coingecko, done
    fb_coins,               \* its coins argument
    fb_prices,              \* the prices dict: coin -> source of its quote
    fb_errors,              \* the errors list of the first pass
    fb_missing,             \* missing_coins
    fb_todo,                \* what is left of the copy the KuCoin loop iterates
    fb_recovered,           \* history: coins whose quote came from a retry
    \* ---- DataAggregator.fetch_7d_return ----
    r7_pc,                  \* per task: idle, awaiting, done
    r7_coin,                \* per task: the coin argument
    r7_pos,                 \* per task: source being awaited (index of Sources7d)
    r7_contacts,            \* per task: sources whose fetcher was called
    r7_result,              \* per task: what the call returned
    \* ---- LiquidationMemoryStore ----
    max_size,
    liquidations,           \* the stored events, each with the number of its add
    add_count,              \* history: number of add calls so far
    q_kind,                 \* the last query since the last add: none, recent,
                            \* by_symbol, aggregated
    q_now,                  \* datetime.now() of the last query
    q_hours,                \* its hours argument
    q_symbol,               \* its symbol argument
    q_result,               \* what it returned
    q_before,               \* history: the stored events when it was called
    \* ---- LiquidationWebSocketCollector._connect ----
    running,
    ws,                     \* self.ws: none, open, closed
    coll_pc,                \* stopped, loop, connecting, streaming, sleeping, exited
    connects,               \* history: number of connection attempts
    messages,               \* history: number of messages processed
    last_end,               \* history: how the last connection (attempt) ended
    slept,                  \* history: seconds slept since the last connection ended
    gap,                    \* history: seconds slept before the last attempt
    \* ---- LiquidationWebSocketCollector._process_message and the buffer ----
    symbols,
    on_liquidation,         \* none, or store_add (liquidation_store.add)
    coll_now,               \* datetime.now(), in half seconds
    buffer,                 \* self._buffer
    last_flush,             \* self._last_flush, in half seconds
    accepted,               \* history: the events the parser accepted, in order
    on_calls,               \* history: the arguments of the callback, in order
    h_elapsed,              \* history: half seconds since the last flush when the
                            \* last accepted event was handled, -1 if none was
    h_len,                  \* history: the buffer's length at its flush check
    h_drained,              \* history: whether its handling left the buffer empty
    h_discarded,            \* history: what became of the last message: kept,
                            \* symbol (discarded for its symbol), not_order
    \* ---- LiquidationFetcher.get_heatmap ----
    heat_now,               \* datetime.utcnow(), in seconds
    heat_cache,             \* self._cache, per symbol
    heat_pc,                \* idle, fetching, raised
    heat_symbol,            \* the symbol of the last call
    heat_result,            \* what the last call returned
    heat_from_cache,        \* history: whether that was a cached result
    heat_age,               \* history: the age of the cached result it returned
    heat_obtained,          \* history: the inputs the last fetch obtained
    \* ---- the buffer under its lock, thread by thread ----
    buffer_lock,            \* _buffer_lock: the thread that holds it, or "none"
    fl_pc,                  \* per thread (handler, stop): where it is
    fl_liq,                 \* the event _process_message is handling, if any
    fl_copy,                \* per thread: buffer_copy of its _flush_buffer call
    fl_batches,             \* history: the batches flushes took, in the order taken
    fl_sink,                \* history: the batches logged, in the order logged
    \* ---- calculate_fragility_score ----
    frag_in,                \* the arguments
    frag_out,               \* the returned dict, or what became of the call
    \* ---- calculate_complete_heatmap ----
    hm_in,                  \* the arguments
    hm_out                  \* the returned dict

rlVars == <<now, current_minute_weight, minute_start, last_request_time, lock,
            rl_pc, rl_attempt, rl_weight, rl_read, rl_wake, rl_invocations,
            rl_last_exception, rl_returned, recent,
           rl_wait, rl_last_write>>

aggVars == <<clock, price_cache, fp_pc, fp_coin, fp_pos, fp_contacts, fp_result,
             fp_afterCall, fp_afterQuote, lastCallAt, lastQuoteAt, batch_pc,
             batch_coins, batch_prices, batch_errors>>

fbVars == <<fb_pc, fb_coins, fb_prices, fb_errors, fb_missing, fb_todo, fb_recovered>>

r7Vars == <<r7_pc, r7_coin, r7_pos, r7_contacts, r7_result>>

storeVars == <<max_size, liquidations, add_count, q_kind, q_now, q_hours, q_symbol,
               q_result, q_before>>

collVars == <<running, ws, coll_pc, connects, messages, last_end, slept, gap>>

bufVars == <<symbols, on_liquidation, coll_now, buffer, last_flush, accepted,
             on_calls, h_elapsed, h_len, h_drained, h_discarded>>

flVars == <<buffer_lock, fl_pc, fl_liq, fl_copy, fl_batches, fl_sink>>

heatVars == <<heat_now, heat_cache, heat_pc, heat_symbol, heat_result,
              heat_from_cache, heat_age, heat_obtained>>

fragVars == <<frag_in, frag_out>>

hmVars == <<hm_in, hm_out>>

vars == <<rlVars, aggVars, fbVars, r7Vars, storeVars, collVars, bufVars, flVars,
          heatVars, fragVars, hmVars>>

\* What the steps of one component leave alone.
notRL == <<aggVars, fbVars, r7Vars, storeVars, collVars, bufVars, flVars, heatVars,
           fragVars, hmVars>>
notAggFb == <<rlVars, r7Vars, storeVars, collVars, bufVars, flVars, heatVars, fragVars,
              hmVars>>
notAgg == <<notAggFb, fbVars>>
not7d == <<rlVars, aggVars, fbVars, storeVars, collVars, bufVars, flVars, heatVars,
           fragVars, hmVars>>
notStore == <<rlVars, aggVars, fbVars, r7Vars, collVars, bufVars, flVars, heatVars,
              fragVars, hmVars>>
notFlush == <<rlVars, aggVars, fbVars, r7Vars, heatVars, fragVars, hmVars>>
notCollStore == <<notFlush, flVars>>
notColl == <<notCollStore, storeVars>>
notHeat == <<rlVars, aggVars, fbVars, r7Vars, storeVars, collVars, bufVars, flVars,
             fragVars, hmVars>>
notFrag == <<rlVars, aggVars, fbVars, r7Vars, storeVars, collVars, bufVars, flVars,
             heatVars, hmVars>>
notHm == <<rlVars, aggVars, fbVars, r7Vars, storeVars, collVars, bufVars, flVars,
           heatVars, fragVars>>

(***************************************************************************)
(* BinanceRateLimiter                                                      *)
(***************************************************************************)
\* Ages, in seconds, of the admissions still inside a rolling window of
\* WindowSeconds that ends now.
Ages == {a \in 0..(WindowSeconds - 1) : a % TimeStep = 0}

InitRL ==
    /\ now = 0
    /\ current_minute_weight = 0
    /\ minute_start = 0          \* time.time() at construction
    /\ last_request_time = -1    \* the epoch: long before construction
    /\ lock = "free"
    /\ rl_pc = [t \in Tasks |-> "idle"]
    /\ rl_attempt = [t \in Tasks |-> 0]
    /\ rl_weight = [t \in Tasks |-> 1]
    /\ rl_read = [t \in Tasks |-> 0]
    /\ rl_wake = [t \in Tasks |-> 0]
    /\ rl_invocations = [t \in Tasks |-> 0]
    /\ rl_last_exception = [t \in Tasks |-> -1]
    /\ rl_returned = [t \in Tasks |-> -1]
    /\ recent = [a \in Ages |-> 0]
    /\ rl_wait = [t \in Tasks |-> 0]
    /\ rl_last_write = [by |-> "none", holder |-> "none"]

\* _reset_minute_if_needed, line 57.
ResetNeeded(start) == now - start >= WindowSeconds

\* _reset_minute_if_needed: the weight counter after the call.
WeightAfterReset(w, start) == IF ResetNeeded(start) THEN 0 ELSE w

\* _reset_minute_if_needed: minute_start after the call.
StartAfterReset(start) == IF ResetNeeded(start) THEN now ELSE start

\* A test that looks at the counter alone, not at the weight of the request.
OverLimitIgnoringWeight(cur, weight) == cur > SafeWeightLimit

\* acquire, line 81: the request does not fit in the current window.
OverLimit(cur, weight) == cur + weight > SafeWeightLimit

\* acquire, line 83: wait_time, from the time read at line 72.
WaitTime(readAt, start) == WindowSeconds - (readAt - start) + WaitBuffer

\* acquire, lines 88-89: the request is admitted and the lock released.
Admit(t, cur) ==
    /\ current_minute_weight' = cur + rl_weight[t]
    /\ last_request_time' = now
    /\ recent' = [recent EXCEPT ![0] = @ + rl_weight[t]]
    /\ lock' = "free"
    /\ rl_read' = [rl_read EXCEPT ![t] = 0]
    /\ rl_wake' = [rl_wake EXCEPT ![t] = 0]
    /\ rl_pc' = [rl_pc EXCEPT ![t] = "call"]

\* acquire, lines 81-85: the request does not fit; sleep until the window ends.
StartWait(t, readAt, start) ==
    /\ rl_wake' = [rl_wake EXCEPT ![t] = now + WaitTime(readAt, start)]
    /\ rl_pc' = [rl_pc EXCEPT ![t] = "wait"]
    /\ UNCHANGED <<last_request_time, recent>>

\* The first attempt of the for loop (line 108), or the raise of line 137
\* when the loop has no iteration.
FirstAttemptPc == IF 0 < MaxRetries THEN "acquire" ELSE "raised"

\* A caller enters execute_with_retry(func, endpoint).
RLStart(t) ==
    /\ rl_pc[t] = "idle"
    /\ \E w \in EndpointWeights : rl_weight' = [rl_weight EXCEPT ![t] = w]
    /\ rl_pc' = [rl_pc EXCEPT ![t] = FirstAttemptPc]
    /\ UNCHANGED <<now, current_minute_weight, minute_start, last_request_time,
                   lock, rl_attempt, rl_read, rl_wake, rl_invocations,
                   rl_last_exception, rl_returned, recent>>
    /\ UNCHANGED <<rl_wait, rl_last_write>>
    /\ UNCHANGED notRL

\* acquire, lines 68-78 and, when nothing is awaited, up to line 89: take the
\* lock, reset the window if needed, then sleep out the minimum delay, or
\* start the over-limit sleep, or admit the request in the same step.
AcquireEnter(t) ==
    /\ rl_pc[t] = "acquire"
    /\ lock = "free"
    /\ minute_start' = StartAfterReset(minute_start)
    /\ LET cur == WeightAfterReset(current_minute_weight, minute_start)
       IN IF (now - last_request_time) * 1000 < MinDelayMs
          THEN /\ lock' = t
               /\ current_minute_weight' = cur
               /\ rl_read' = [rl_read EXCEPT ![t] = now]
               /\ rl_pc' = [rl_pc EXCEPT ![t] = "delay"]
               /\ UNCHANGED <<last_request_time, recent, rl_wake>>
          ELSE IF OverLimit(cur, rl_weight[t])
          THEN /\ lock' = t
               /\ current_minute_weight' = cur
               /\ rl_read' = [rl_read EXCEPT ![t] = now]
               /\ StartWait(t, now, StartAfterReset(minute_start))
          ELSE Admit(t, cur)
    /\ UNCHANGED <<now, rl_attempt, rl_weight, rl_invocations, rl_last_exception,
                   rl_returned>>
    /\ rl_last_write' = [by |-> t, holder |-> t]
    /\ UNCHANGED rl_wait
    /\ UNCHANGED notRL

\* acquire, lines 80-89, resumed after the minimum-delay sleep of line 78.
AcquireAfterDelay(t) ==
    /\ rl_pc[t] = "delay"
    /\ IF OverLimit(current_minute_weight, rl_weight[t])
       THEN /\ StartWait(t, rl_read[t], minute_start)
            /\ UNCHANGED <<current_minute_weight, lock, rl_read>>
       ELSE Admit(t, current_minute_weight)
    /\ UNCHANGED <<now, minute_start, rl_attempt, rl_weight, rl_invocations,
                   rl_last_exception, rl_returned>>
    /\ rl_last_write' = IF OverLimit(current_minute_weight, rl_weight[t])
                        THEN rl_last_write ELSE [by |-> t, holder |-> t]
    /\ UNCHANGED rl_wait
    /\ UNCHANGED notRL

\* acquire, lines 86-89, resumed after the over-limit sleep of line 85.
AcquireAfterWait(t) ==
    /\ rl_pc[t] = "wait"
    /\ now >= rl_wake[t]
    /\ minute_start' = StartAfterReset(minute_start)
    /\ Admit(t, WeightAfterReset(current_minute_weight, minute_start))
    /\ UNCHANGED <<now, rl_attempt, rl_weight, rl_invocations, rl_last_exception,
                   rl_returned>>
    /\ rl_last_write' = [by |-> t, holder |-> t]
    /\ UNCHANGED rl_wait
    /\ UNCHANGED notRL

\* A retry loop that allows one attempt too many.
NextAttemptPcOffByOne(k) == IF k + 1 <= MaxRetries THEN "acquire" ELSE "raised"

\* The attempt that follows attempt k of the for loop (line 108), or the
\* raise of line 137 when the loop is exhausted.
NextAttemptPc(k) == IF k + 1 < MaxRetries THEN "acquire" ELSE "raised"

\* Lines 128-134: after a failure that is not a rate limit, attempt k is
\* followed by a backoff and a retry unless it was the last one (break).
AfterErrorPc(k) == IF k < MaxRetries - 1 THEN "backoff_err" ELSE "raised"

RECURSIVE Power(_, _)
Power(b, k) == IF k = 0 THEN 1 ELSE b * Power(b, k - 1)

\* A backoff that does not grow with the attempt.
ConstantWait(attempt) == RetryDelayBaseMs

\* Line 122: wait_time = retry_delay_base * (2 ** attempt), in milliseconds.
RateLimitWait(attempt) == RetryDelayBaseMs * Power(2, attempt)

\* Line 130: wait_time = retry_delay_base * (1.5 ** attempt), in milliseconds.
ErrorWait(attempt) == (RetryDelayBaseMs * Power(3, attempt)) \div Power(2, attempt)

\* execute_with_retry, lines 114-115: func returns; its result is returned.
CallReturns(t) ==
    /\ rl_pc[t] = "call"
    /\ rl_invocations' = [rl_invocations EXCEPT ![t] = @ + 1]
    /\ rl_returned' = [rl_returned EXCEPT ![t] = rl_invocations[t] + 1]
    /\ rl_pc' = [rl_pc EXCEPT ![t] = "returned"]
    /\ UNCHANGED <<now, current_minute_weight, minute_start, last_request_time,
                   lock, rl_attempt, rl_weight, rl_read, rl_wake,
                   rl_last_exception, recent>>
    /\ UNCHANGED <<rl_wait, rl_last_write>>
    /\ UNCHANGED notRL

\* execute_with_retry, lines 117-125: func raises a rate-limit error (429).
CallRateLimited(t) ==
    /\ rl_pc[t] = "call"
    /\ rl_invocations' = [rl_invocations EXCEPT ![t] = @ + 1]
    /\ rl_last_exception' = [rl_last_exception EXCEPT ![t] = rl_attempt[t]]
    /\ rl_pc' = [rl_pc EXCEPT ![t] = "backoff_rl"]
    /\ UNCHANGED <<now, current_minute_weight, minute_start, last_request_time,
                   lock, rl_attempt, rl_weight, rl_read, rl_wake, rl_returned,
                   recent>>
    /\ rl_wait' = [rl_wait EXCEPT ![t] = RateLimitWait(rl_attempt[t])]
    /\ UNCHANGED rl_last_write
    /\ UNCHANGED notRL

\* execute_with_retry, lines 117-119 and 128-134: func raises another error.
CallFails(t) ==
    /\ rl_pc[t] = "call"
    /\ rl_invocations' = [rl_invocations EXCEPT ![t] = @ + 1]
    /\ rl_last_exception' = [rl_last_exception EXCEPT ![t] = rl_attempt[t]]
    /\ rl_pc' = [rl_pc EXCEPT ![t] = AfterErrorPc(rl_attempt[t])]
    /\ UNCHANGED <<now, current_minute_weight, minute_start, last_request_time,
                   lock, rl_attempt, rl_weight, rl_read, rl_wake, rl_returned,
                   recent>>
    /\ rl_wait' = [rl_wait EXCEPT ![t] =
                       IF AfterErrorPc(rl_attempt[t]) = "backoff_err"
                       THEN ErrorWait(rl_attempt[t]) ELSE 0]
    /\ UNCHANGED rl_last_write
    /\ UNCHANGED notRL

\* Line 127: the value the weight counter takes after a rate-limit backoff.
WeightAfterRateLimit == 0

\* execute_with_retry, lines 125-127: the rate-limit backoff ends, the weight
\* counter is reset (the lock is not taken) and the loop goes on.
BackoffRateLimitEnds(t) ==
    /\ rl_pc[t] = "backoff_rl"
    /\ current_minute_weight' = WeightAfterRateLimit
    /\ rl_attempt' = [rl_attempt EXCEPT ![t] = @ + 1]
    /\ rl_pc' = [rl_pc EXCEPT ![t] = NextAttemptPc(rl_attempt[t])]
    /\ UNCHANGED <<now, minute_start, last_request_time, lock, rl_weight, rl_read,
                   rl_wake, rl_invocations, rl_last_exception, rl_returned, recent>>
    /\ rl_last_write' = [by |-> t, holder |-> lock]
    /\ rl_wait' = [rl_wait EXCEPT ![t] = 0]
    /\ UNCHANGED notRL

\* execute_with_retry, line 132: the softer backoff ends and the loop goes on.
BackoffErrorEnds(t) ==
    /\ rl_pc[t] = "backoff_err"
    /\ rl_attempt' = [rl_attempt EXCEPT ![t] = @ + 1]
    /\ rl_pc' = [rl_pc EXCEPT ![t] = NextAttemptPc(rl_attempt[t])]
    /\ UNCHANGED <<now, current_minute_weight, minute_start, last_request_time,
                   lock, rl_weight, rl_read, rl_wake, rl_invocations,
                   rl_last_exception, rl_returned, recent>>
    /\ rl_wait' = [rl_wait EXCEPT ![t] = 0]
    /\ UNCHANGED rl_last_write
    /\ UNCHANGED notRL

\* Time passes: every admission grows older by TimeStep seconds, and the ones
\* that leave the rolling window are forgotten.
Tick ==
    /\ now + TimeStep <= MaxTime
    /\ now' = now + TimeStep
    /\ recent' = [a \in Ages |-> IF a = 0 THEN 0 ELSE recent[a - TimeStep]]
    /\ UNCHANGED <<current_minute_weight, minute_start, last_request_time, lock,
                   rl_pc, rl_attempt, rl_weight, rl_read, rl_wake, rl_invocations,
                   rl_last_exception, rl_returned>>
    /\ UNCHANGED <<rl_wait, rl_last_write>>
    /\ UNCHANGED notRL

NextRL ==
    \/ Tick
    \/ \E t \in Tasks : RLStart(t)
    \/ \E t \in Tasks : AcquireEnter(t)
    \/ \E t \in Tasks : AcquireAfterDelay(t)
    \/ \E t \in Tasks : AcquireAfterWait(t)
    \/ \E t \in Tasks : CallReturns(t)
    \/ \E t \in Tasks : CallRateLimited(t)
    \/ \E t \in Tasks : CallFails(t)
    \/ \E t \in Tasks : BackoffRateLimitEnds(t)
    \/ \E t \in Tasks : BackoffErrorEnds(t)


(***************************************************************************)
(* DataAggregator                                                          *)
(***************************************************************************)
\* The timestamp of a coin that has no entry in price_cache.
NoEntry == -1

InitAgg ==
    /\ clock = 0
    /\ price_cache = [c \in Coins |-> NoEntry]
    /\ fp_pc = [f \in FetchTasks |-> "idle"]
    /\ fp_coin = [f \in FetchTasks |-> "BTC"]
    /\ fp_pos = [f \in FetchTasks |-> 0]
    /\ fp_contacts = [f \in FetchTasks |-> <<>>]
    /\ fp_result = [f \in FetchTasks |-> "pending"]
    /\ fp_afterCall = [f \in FetchTasks |-> FALSE]
    /\ fp_afterQuote = [f \in FetchTasks |-> FALSE]
    /\ lastCallAt = [c \in Coins |-> -1]
    /\ lastQuoteAt = [c \in Coins |-> -1]
    /\ batch_pc = "idle"
    /\ batch_coins = <<>>
    /\ batch_prices = <<>>
    /\ batch_errors = <<>>

\* config/sectors.py: EXCHANGE_PRIORITY.
EXCHANGE_PRIORITY == <<"binance", "okx", "kucoin", "coinbase">>

\* config/sectors.py: SYMBOL_MAPPING, for the coins of the model.
SYMBOL_MAPPING(exchange) ==
    CASE exchange = "binance" -> {"BTC"}
      [] exchange = "okx" -> {"BTC", "HYPE"}
      [] exchange = "kucoin" -> {"BTC", "HYPE"}
      [] exchange = "coinbase" -> {"BTC"}
      [] OTHER -> {}

\* coingecko.py: COIN_IDS, for the coins of the model.
COIN_IDS == {"HYPE", "ZORA"}

\* The stages of fetch_price_with_fallback: stages 1..4 are the iterations of
\* the for loop over EXCHANGE_PRIORITY, stage 5 the KuCoin fallback, stage 6
\* the CoinGecko fallback; LastStage + 1 is the final return None.
LastStage == Len(EXCHANGE_PRIORITY) + 2

StageSource(pos) ==
    IF pos <= Len(EXCHANGE_PRIORITY) THEN EXCHANGE_PRIORITY[pos]
    ELSE IF pos = Len(EXCHANGE_PRIORITY) + 1 THEN "kucoin"
    ELSE "coingecko"

\* Whether stage pos awaits a fetcher for the coin. In the loop (lines 31-42)
\* that needs a symbol mapping, and only Binance and OKX have a fetcher there;
\* the KuCoin fallback needs the KuCoin mapping (lines 57-58); CoinGecko is
\* always called (line 74).
Awaited(pos, coin) ==
    IF pos <= Len(EXCHANGE_PRIORITY)
    THEN /\ coin \in SYMBOL_MAPPING(EXCHANGE_PRIORITY[pos])
         /\ EXCHANGE_PRIORITY[pos] \in {"binance", "okx"}
    ELSE IF pos = Len(EXCHANGE_PRIORITY) + 1
    THEN coin \in SYMBOL_MAPPING("kucoin")
    ELSE TRUE

\* A chain that tries the fallbacks first: the last awaited stage comes next.
NextStageLowestFirst(coin, pos) ==
    LET later == {q \in (pos + 1)..LastStage : Awaited(q, coin)}
    IN IF later = {} THEN LastStage + 1
       ELSE CHOOSE q \in later : \A r \in later : q >= r

\* The first stage after pos that awaits a fetcher, or LastStage + 1.
NextStage(coin, pos) ==
    LET later == {q \in (pos + 1)..LastStage : Awaited(q, coin)}
    IN IF later = {} THEN LastStage + 1
       ELSE CHOOSE q \in later : \A r \in later : q <= r

\* A cache check that takes the entry's age in the wrong unit and so expires
\* it after a fifth of cache_ttl.
CacheFreshShortTtl(coin) ==
    /\ price_cache[coin] # NoEntry
    /\ (clock - price_cache[coin]) * 5 < CacheTtl

\* Lines 24-27: the cache holds an entry for the coin younger than cache_ttl.
CacheFresh(coin) ==
    /\ price_cache[coin] # NoEntry
    /\ clock - price_cache[coin] < CacheTtl

\* A KuCoin fallback that is not wrapped in a try block.
CaughtExceptKuCoin(pos) == pos # LastStage - 1

\* Whether an exception raised by the fetcher of stage pos is caught inside
\* fetch_price_with_fallback (lines 52-54, 68-69, 82-83).
Caught(pos) == TRUE

\* The outcomes the fetcher of stage pos can have for the coin. CoinGecko's
\* fetch_price returns nothing, without a request, for a coin that has no id.
CanAnswer(pos, coin) == StageSource(pos) # "coingecko" \/ coin \in COIN_IDS

\* A result that fetch_multiple_prices files under prices (lines 146-149):
\* not an exception and truthy.
IsQuote(r) == r \notin {"pending", "None", "raised"}

\* fetch_price_with_fallback, lines 21-36: the cache check, then the chain up
\* to the first awaited fetcher.
FetchStart(f) ==
    /\ fp_pc[f] = "ready"
    /\ LET coin == fp_coin[f]
       IN /\ IF CacheFresh(coin)
             THEN /\ fp_pc' = [fp_pc EXCEPT ![f] = "done"]
                  /\ fp_result' = [fp_result EXCEPT ![f] = "cached"]
                  /\ UNCHANGED fp_pos
             ELSE /\ fp_pc' = [fp_pc EXCEPT ![f] = "awaiting"]
                  /\ fp_pos' = [fp_pos EXCEPT ![f] = NextStage(coin, 0)]
                  /\ UNCHANGED fp_result
          /\ fp_afterCall' = [fp_afterCall EXCEPT ![f] =
                /\ lastCallAt[coin] >= 0
                /\ clock - lastCallAt[coin] < CacheTtl]
          /\ fp_afterQuote' = [fp_afterQuote EXCEPT ![f] =
                /\ lastQuoteAt[coin] >= 0
                /\ clock - lastQuoteAt[coin] < CacheTtl]
          /\ lastCallAt' = [lastCallAt EXCEPT ![coin] = clock]
    /\ UNCHANGED <<clock, price_cache, fp_coin, fp_contacts, lastQuoteAt, batch_pc,
                   batch_coins, batch_prices, batch_errors>>
    /\ UNCHANGED notAgg

\* The task goes on after the fetcher of its stage gave no quote: to the next
\* awaited stage, or to the return None of line 85.
MoveOn(f) ==
    LET next == NextStage(fp_coin[f], fp_pos[f])
    IN IF next > LastStage
       THEN /\ fp_pc' = [fp_pc EXCEPT ![f] = "done"]
            /\ fp_result' = [fp_result EXCEPT ![f] = "None"]
            /\ fp_pos' = [fp_pos EXCEPT ![f] = 0]
       ELSE /\ fp_pos' = [fp_pos EXCEPT ![f] = next]
            /\ UNCHANGED <<fp_pc, fp_result>>

\* Lines 44-50, 61-67, 75-81: the awaited fetcher returns a quote, which is
\* cached and returned.
FetchQuote(f) ==
    /\ fp_pc[f] = "awaiting"
    /\ CanAnswer(fp_pos[f], fp_coin[f])
    /\ fp_contacts' = [fp_contacts EXCEPT ![f] = Append(@, StageSource(fp_pos[f]))]
    /\ price_cache' = [price_cache EXCEPT ![fp_coin[f]] = clock]
    /\ lastQuoteAt' = [lastQuoteAt EXCEPT ![fp_coin[f]] = clock]
    /\ fp_result' = [fp_result EXCEPT ![f] = StageSource(fp_pos[f])]
    /\ fp_pc' = [fp_pc EXCEPT ![f] = "done"]
    /\ fp_pos' = [fp_pos EXCEPT ![f] = 0]
    /\ UNCHANGED <<clock, fp_coin, fp_afterCall, fp_afterQuote, lastCallAt,
                   batch_pc, batch_coins, batch_prices, batch_errors>>
    /\ UNCHANGED notAgg

\* The awaited fetcher returns None.
FetchNothing(f) ==
    /\ fp_pc[f] = "awaiting"
    /\ fp_contacts' = [fp_contacts EXCEPT ![f] = Append(@, StageSource(fp_pos[f]))]
    /\ MoveOn(f)
    /\ UNCHANGED <<clock, price_cache, fp_coin, fp_afterCall, fp_afterQuote,
                   lastCallAt, lastQuoteAt, batch_pc, batch_coins, batch_prices,
                   batch_errors>>
    /\ UNCHANGED notAgg

\* The awaited fetcher raises.
FetchRaises(f) ==
    /\ fp_pc[f] = "awaiting"
    /\ CanAnswer(fp_pos[f], fp_coin[f])
    /\ fp_contacts' = [fp_contacts EXCEPT ![f] = Append(@, StageSource(fp_pos[f]))]
    /\ IF Caught(fp_pos[f])
       THEN MoveOn(f)
       ELSE /\ fp_pc' = [fp_pc EXCEPT ![f] = "done"]
            /\ fp_result' = [fp_result EXCEPT ![f] = "raised"]
            /\ fp_pos' = [fp_pos EXCEPT ![f] = 0]
    /\ UNCHANGED <<clock, price_cache, fp_coin, fp_afterCall, fp_afterQuote,
                   lastCallAt, lastQuoteAt, batch_pc, batch_coins, batch_prices,
                   batch_errors>>
    /\ UNCHANGED notAgg

\* The lists of coins a caller passes to fetch_multiple_prices.
CoinLists == UNION {[1..n -> Coins] : n \in 1..Len(TaskSeq)}

\* fetch_multiple_prices, lines 139-140: one coroutine per coin, gathered.
BatchCall(coins) ==
    /\ batch_pc = "idle"
    /\ \A f \in FetchTasks : fp_pc[f] = "idle"
    /\ batch_pc' = "gathering"
    /\ batch_coins' = coins
    /\ fp_pc' = [f \in FetchTasks |->
                    IF \E i \in 1..Len(coins) : TaskSeq[i] = f THEN "ready" ELSE "idle"]
    /\ fp_coin' = [f \in FetchTasks |->
                    IF \E i \in 1..Len(coins) : TaskSeq[i] = f
                    THEN coins[CHOOSE i \in 1..Len(coins) : TaskSeq[i] = f]
                    ELSE fp_coin[f]]
    /\ UNCHANGED <<clock, price_cache, fp_pos, fp_contacts, fp_result, fp_afterCall,
                   fp_afterQuote, lastCallAt, lastQuoteAt, batch_prices, batch_errors>>
    /\ UNCHANGED notAgg

\* A zip loop that files every result under prices, whatever it is.
PricesOfEveryResult(coins, results) ==
    [c \in {coins[i] : i \in 1..Len(coins)} |->
        results[CHOOSE i \in 1..Len(coins) :
                   /\ coins[i] = c
                   /\ \A j \in 1..Len(coins) : coins[j] = c => j <= i]]

\* fetch_multiple_prices, lines 142-151: the zip loop over (coin, result).
\* prices is a dict: a later entry for the same coin replaces an earlier one.
PricesOf(coins, results) ==
    LET keys == {coins[i] : i \in {j \in 1..Len(coins) : IsQuote(results[j])}}
    IN [c \in keys |->
          results[CHOOSE i \in 1..Len(coins) :
                     /\ coins[i] = c
                     /\ IsQuote(results[i])
                     /\ \A j \in 1..Len(coins) :
                           (coins[j] = c /\ IsQuote(results[j])) => j <= i]]

ErrorEntry(coin, result) ==
    [coin |-> coin,
     error |-> IF result = "raised" THEN "exception" ELSE "No data available"]

RECURSIVE ErrorsOf(_, _)
ErrorsOf(coins, results) ==
    IF coins = <<>> THEN <<>>
    ELSE IF IsQuote(Head(results))
    THEN ErrorsOf(Tail(coins), Tail(results))
    ELSE <<ErrorEntry(Head(coins), Head(results))>>
            \o ErrorsOf(Tail(coins), Tail(results))

\* fetch_multiple_prices, lines 140-157: gather has every result; partition.
BatchReturn ==
    /\ batch_pc = "gathering"
    /\ \A i \in 1..Len(batch_coins) : fp_pc[TaskSeq[i]] = "done"
    /\ LET results == [i \in 1..Len(batch_coins) |-> fp_result[TaskSeq[i]]]
       IN /\ batch_prices' = PricesOf(batch_coins, results)
          /\ batch_errors' = ErrorsOf(batch_coins, results)
    /\ batch_pc' = "done"
    /\ UNCHANGED <<clock, price_cache, fp_pc, fp_coin, fp_pos, fp_contacts, fp_result,
                   fp_afterCall, fp_afterQuote, lastCallAt, lastQuoteAt, batch_coins>>
    /\ UNCHANGED notAgg

\* The caller is done with the batch's result.
BatchDrop ==
    /\ batch_pc = "done"
    /\ batch_pc' = "idle"
    /\ batch_coins' = <<>>
    /\ batch_prices' = <<>>
    /\ batch_errors' = <<>>
    /\ fp_pc' = [f \in FetchTasks |-> "idle"]
    /\ fp_contacts' = [f \in FetchTasks |-> <<>>]
    /\ fp_result' = [f \in FetchTasks |-> "pending"]
    /\ fp_afterCall' = [f \in FetchTasks |-> FALSE]
    /\ fp_afterQuote' = [f \in FetchTasks |-> FALSE]
    /\ fp_coin' = [f \in FetchTasks |-> "BTC"]
    /\ UNCHANGED <<clock, price_cache, fp_pos, lastCallAt, lastQuoteAt>>
    /\ UNCHANGED notAgg

\* Time passes.
AggTick ==
    /\ clock + AggTimeStep <= MaxAggTime
    /\ clock' = clock + AggTimeStep
    /\ UNCHANGED <<price_cache, fp_pc, fp_coin, fp_pos, fp_contacts, fp_result,
                   fp_afterCall, fp_afterQuote, lastCallAt, lastQuoteAt, batch_pc,
                   batch_coins, batch_prices, batch_errors>>
    /\ UNCHANGED notAgg

NextAgg ==
    \/ AggTick
    \/ \E f \in FetchTasks : FetchStart(f)
    \/ \E f \in FetchTasks : FetchQuote(f)
    \/ \E f \in FetchTasks : FetchNothing(f)
    \/ \E f \in FetchTasks : FetchRaises(f)
    \/ \E coins \in CoinLists : BatchCall(coins)
    \/ BatchReturn
    \/ BatchDrop


(***************************************************************************)
(* DataAggregator.fetch_multiple_prices_with_fallbacks                     *)
(***************************************************************************)
InitFb ==
    /\ fb_pc = "idle"
    /\ fb_coins = <<>>
    /\ fb_prices = <<>>
    /\ fb_errors = <<>>
    /\ fb_missing = <<>>
    /\ fb_todo = <<>>
    /\ fb_recovered = {}

\* What fetch_price_with_fallback can return for the coin (lines 21-84): the
\* cached quote when the cache entry is fresh, otherwise the quote of a source
\* that is awaited for the coin, or None.
FirstPassResults(coin) ==
    IF CacheFresh(coin) THEN {"cached"}
    ELSE {"None"} \cup {StageSource(pos) : pos \in {q \in 1..LastStage :
                                                    Awaited(q, coin) /\ CanAnswer(q, coin)}}

FirstPassOutcomes == {"cached", "None"} \cup {StageSource(pos) : pos \in 1..LastStage}

\* Line 93: the requested coins that are not a key of prices, in list order.
RECURSIVE MissingCoins(_, _)
MissingCoins(coins, prices) ==
    IF coins = <<>> THEN <<>>
    ELSE IF Head(coins) \in DOMAIN prices
    THEN MissingCoins(Tail(coins), prices)
    ELSE <<Head(coins)>> \o MissingCoins(Tail(coins), prices)

\* list.remove (line 110): the list without the first occurrence of the coin.
RECURSIVE RemoveFirst(_, _)
RemoveFirst(coins, coin) ==
    IF coins = <<>> THEN <<>>
    ELSE IF Head(coins) = coin THEN Tail(coins)
    ELSE <<Head(coins)>> \o RemoveFirst(Tail(coins), coin)

\* The dict with the quote of source for the coin set (lines 104, 121).
WithPrice(prices, coin, source) ==
    [c \in DOMAIN prices \cup {coin} |-> IF c = coin THEN source ELSE prices[c]]

\* Lines 131-135: the errors output is the first pass's list, as it was.
ReturnedErrors(errors, prices) == errors

\* Lines 89-93: the first pass through fetch_multiple_prices, which caches
\* every fresh quote (lines 44-81), and the list of the coins it left out.
FallbacksCall(coins, results) ==
    /\ fb_pc = "idle"
    /\ \A i \in 1..Len(coins) : results[i] \in FirstPassResults(coins[i])
    /\ fb_coins' = coins
    /\ fb_prices' = PricesOf(coins, results)
    /\ fb_errors' = ErrorsOf(coins, results)
    /\ fb_missing' = MissingCoins(coins, PricesOf(coins, results))
    /\ fb_todo' = MissingCoins(coins, PricesOf(coins, results))
    /\ fb_recovered' = {}
    /\ price_cache' = [c \in Coins |->
                          IF c \in DOMAIN PricesOf(coins, results)
                             /\ PricesOf(coins, results)[c] # "cached"
                          THEN clock ELSE price_cache[c]]
    /\ fb_pc' = "kucoin"
    /\ UNCHANGED <<clock, fp_pc, fp_coin, fp_pos, fp_contacts, fp_result, fp_afterCall,
                   fp_afterQuote, lastCallAt, lastQuoteAt, batch_pc, batch_coins,
                   batch_prices, batch_errors>>
    /\ UNCHANGED notAggFb

\* Lines 97-110: one iteration of the KuCoin loop whose fetcher returns a
\* quote: the coin enters prices and the cache and leaves missing_coins.
KucoinRetryQuote ==
    /\ fb_pc = "kucoin"
    /\ fb_todo # <<>>
    /\ Head(fb_todo) \in SYMBOL_MAPPING("kucoin")
    /\ fb_prices' = WithPrice(fb_prices, Head(fb_todo), "kucoin")
    /\ price_cache' = [price_cache EXCEPT ![Head(fb_todo)] = clock]
    /\ fb_missing' = RemoveFirst(fb_missing, Head(fb_todo))
    /\ fb_recovered' = fb_recovered \cup {Head(fb_todo)}
    /\ fb_todo' = Tail(fb_todo)
    /\ UNCHANGED <<fb_pc, fb_coins, fb_errors>>
    /\ UNCHANGED <<clock, fp_pc, fp_coin, fp_pos, fp_contacts, fp_result, fp_afterCall,
                   fp_afterQuote, lastCallAt, lastQuoteAt, batch_pc, batch_coins,
                   batch_prices, batch_errors>>
    /\ UNCHANGED notAggFb

\* Lines 97-112: an iteration for a coin without a KuCoin symbol, or whose
\* fetcher returns None or raises (caught, line 111).
KucoinRetryNothing ==
    /\ fb_pc = "kucoin"
    /\ fb_todo # <<>>
    /\ fb_todo' = Tail(fb_todo)
    /\ UNCHANGED <<fb_pc, fb_coins, fb_prices, fb_errors, fb_missing, fb_recovered>>
    /\ UNCHANGED aggVars
    /\ UNCHANGED notAggFb

\* Lines 114-129: the CoinGecko batch for the coins still missing. The batch
\* returns quotes for any of the coins that have a CoinGecko id (none when the
\* request fails or raises, line 128); it is skipped when nothing is missing.
CoinGeckoBatch(got) ==
    /\ fb_pc = "kucoin"
    /\ fb_todo = <<>>
    /\ got \subseteq {fb_missing[i] : i \in 1..Len(fb_missing)} \cap COIN_IDS
    /\ fb_prices' = [c \in DOMAIN fb_prices \cup got |->
                        IF c \in got THEN "coingecko" ELSE fb_prices[c]]
    /\ price_cache' = [c \in Coins |-> IF c \in got THEN clock ELSE price_cache[c]]
    /\ fb_recovered' = fb_recovered \cup got
    /\ fb_pc' = "coingecko"
    /\ UNCHANGED <<fb_coins, fb_errors, fb_missing, fb_todo>>
    /\ UNCHANGED <<clock, fp_pc, fp_coin, fp_pos, fp_contacts, fp_result, fp_afterCall,
                   fp_afterQuote, lastCallAt, lastQuoteAt, batch_pc, batch_coins,
                   batch_prices, batch_errors>>
    /\ UNCHANGED notAggFb

\* Lines 131-135: the return statement.
FallbacksReturn ==
    /\ fb_pc = "coingecko"
    /\ fb_errors' = ReturnedErrors(fb_errors, fb_prices)
    /\ fb_pc' = "done"
    /\ UNCHANGED <<fb_coins, fb_prices, fb_missing, fb_todo, fb_recovered>>
    /\ UNCHANGED aggVars
    /\ UNCHANGED notAggFb

\* The caller is done with the result.
FallbacksDrop ==
    /\ fb_pc = "done"
    /\ fb_pc' = "idle"
    /\ fb_coins' = <<>>
    /\ fb_prices' = <<>>
    /\ fb_errors' = <<>>
    /\ fb_missing' = <<>>
    /\ fb_todo' = <<>>
    /\ fb_recovered' = {}
    /\ UNCHANGED aggVars
    /\ UNCHANGED notAggFb

NextFb ==
    \/ AggTick
    \/ \E coins \in CoinLists :
          \E results \in [1..Len(coins) -> FirstPassOutcomes] :
             FallbacksCall(coins, results)
    \/ KucoinRetryQuote
    \/ KucoinRetryNothing
    \/ \E got \in SUBSET COIN_IDS : CoinGeckoBatch(got)
    \/ FallbacksReturn
    \/ FallbacksDrop


(***************************************************************************)
(* DataAggregator.fetch_7d_return                                          *)
(***************************************************************************)
Init7d ==
    /\ r7_pc = [r \in R7Tasks |-> "idle"]
    /\ r7_coin = [r \in R7Tasks |-> "BTC"]
    /\ r7_pos = [r \in R7Tasks |-> 0]
    /\ r7_contacts = [r \in R7Tasks |-> <<>>]
    /\ r7_result = [r \in R7Tasks |-> "pending"]

\* The sources fetch_7d_return goes through, in the order of lines 185-216.
Sources7d == <<"binance", "okx", "kucoin", "coingecko">>

\* Whether fetch_7d_return calls source number pos for the coin: an exchange
\* needs a symbol mapping (lines 186-187, 193-194, 201-202), CoinGecko none.
Called7d(pos, coin) ==
    Sources7d[pos] = "coingecko" \/ coin \in SYMBOL_MAPPING(Sources7d[pos])

\* Whether the fetcher object of a source has the method fetch_7d_return calls
\* on it: BinanceFetcher.fetch_7d_return, OKXFetcher.fetch_7d_return and
\* CoinGeckoFetcher.fetch_7d_change exist; KuCoinFetcher defines fetch_price
\* and fetch_klines only, so line 203 raises AttributeError.
HasMethod7d(source) == source # "kucoin"

\* Whether an exception that leaves the call to a source is caught inside
\* fetch_7d_return: only the CoinGecko call is in a try block (lines 208-214).
Caught7d(source) == source = "coingecko"

\* Whether the fetcher of a source can raise out of its method: Binance's and
\* OKX's fetch_7d_return catch every Exception themselves and return None.
CanRaise7d(source) == source = "coingecko"

\* fetch_7d_return from the source after number pos: skip the sources that
\* have no mapping, await the first one that is called, raise if its method
\* is missing, and return None after the last.
Advance7d(r, coin, pos) ==
    LET later == {q \in (pos + 1)..Len(Sources7d) : Called7d(q, coin)}
        next == CHOOSE q \in later : \A x \in later : q <= x
    IN IF later = {}
       THEN /\ r7_pc' = [r7_pc EXCEPT ![r] = "done"]
            /\ r7_result' = [r7_result EXCEPT ![r] = "None"]
            /\ r7_pos' = [r7_pos EXCEPT ![r] = 0]
       ELSE IF ~HasMethod7d(Sources7d[next]) /\ ~Caught7d(Sources7d[next])
       THEN /\ r7_pc' = [r7_pc EXCEPT ![r] = "done"]
            /\ r7_result' = [r7_result EXCEPT ![r] = "raised"]
            /\ r7_pos' = [r7_pos EXCEPT ![r] = 0]
       ELSE /\ r7_pc' = [r7_pc EXCEPT ![r] = "awaiting"]
            /\ r7_result' = [r7_result EXCEPT ![r] = "pending"]
            /\ r7_pos' = [r7_pos EXCEPT ![r] = next]

\* A caller calls fetch_7d_return(coin): lines 185-188.
R7Call(r, coin) ==
    /\ r7_pc[r] = "idle"
    /\ r7_coin' = [r7_coin EXCEPT ![r] = coin]
    /\ r7_contacts' = [r7_contacts EXCEPT ![r] = <<>>]
    /\ Advance7d(r, coin, 0)
    /\ UNCHANGED not7d

\* The awaited source returns a value, which is returned (lines 189-190,
\* 197-198, 204-205, 211-212).
R7Value(r) ==
    /\ r7_pc[r] = "awaiting"
    /\ Sources7d[r7_pos[r]] = "coingecko" => r7_coin[r] \in COIN_IDS
    /\ r7_contacts' = [r7_contacts EXCEPT ![r] = Append(@, Sources7d[r7_pos[r]])]
    /\ r7_result' = [r7_result EXCEPT ![r] = Sources7d[r7_pos[r]]]
    /\ r7_pc' = [r7_pc EXCEPT ![r] = "done"]
    /\ r7_pos' = [r7_pos EXCEPT ![r] = 0]
    /\ UNCHANGED r7_coin
    /\ UNCHANGED not7d

\* The awaited source returns None.
R7Nothing(r) ==
    /\ r7_pc[r] = "awaiting"
    /\ r7_contacts' = [r7_contacts EXCEPT ![r] = Append(@, Sources7d[r7_pos[r]])]
    /\ Advance7d(r, r7_coin[r], r7_pos[r])
    /\ UNCHANGED r7_coin
    /\ UNCHANGED not7d

\* The awaited source raises.
R7Raises(r) ==
    /\ r7_pc[r] = "awaiting"
    /\ CanRaise7d(Sources7d[r7_pos[r]])
    /\ Sources7d[r7_pos[r]] = "coingecko" => r7_coin[r] \in COIN_IDS
    /\ r7_contacts' = [r7_contacts EXCEPT ![r] = Append(@, Sources7d[r7_pos[r]])]
    /\ IF Caught7d(Sources7d[r7_pos[r]])
       THEN Advance7d(r, r7_coin[r], r7_pos[r])
       ELSE /\ r7_pc' = [r7_pc EXCEPT ![r] = "done"]
            /\ r7_result' = [r7_result EXCEPT ![r] = "raised"]
            /\ r7_pos' = [r7_pos EXCEPT ![r] = 0]
    /\ UNCHANGED r7_coin
    /\ UNCHANGED not7d

\* The caller has received the outcome of its call.
R7Return(r) ==
    /\ r7_pc[r] = "done"
    /\ r7_pc' = [r7_pc EXCEPT ![r] = "idle"]
    /\ r7_result' = [r7_result EXCEPT ![r] = "pending"]
    /\ r7_contacts' = [r7_contacts EXCEPT ![r] = <<>>]
    /\ r7_coin' = [r7_coin EXCEPT ![r] = "BTC"]
    /\ UNCHANGED r7_pos
    /\ UNCHANGED not7d

Next7d ==
    \/ \E r \in R7Tasks, coin \in Coins : R7Call(r, coin)
    \/ \E r \in R7Tasks : R7Value(r)
    \/ \E r \in R7Tasks : R7Nothing(r)
    \/ \E r \in R7Tasks : R7Raises(r)
    \/ \E r \in R7Tasks : R7Return(r)

(***************************************************************************)
(* LiquidationMemoryStore                                                  *)
(***************************************************************************)
InitStore ==
    /\ max_size \in 1..MaxCapacity
    /\ liquidations = <<>>
    /\ add_count = 0
    /\ q_kind = "none"
    /\ q_now = 0
    /\ q_hours = 0
    /\ q_symbol = "none"
    /\ q_result = <<>>
    /\ q_before = <<>>

\* The last n elements of a sequence, for n >= 1: the slice seq[-n:].
LastN(seq, n) ==
    IF Len(seq) <= n THEN seq
    ELSE [i \in 1..n |-> seq[Len(seq) - n + i]]

\* An add that keeps the oldest max_size events instead of the newest.
AppendedKeepsOldest(seq, liq) ==
    LET all == Append(seq, liq)
    IN IF Len(all) > max_size THEN SubSeq(all, 1, max_size) ELSE all

\* add, lines 227-230: append, then keep the last max_size events.
Appended(seq, liq) ==
    LET all == Append(seq, liq)
    IN IF Len(all) > max_size THEN LastN(all, max_size) ELSE all

\* The effect of add(liquidation) on the store.
AddToStore(e) ==
    /\ add_count' = add_count + 1
    /\ liquidations' = Appended(liquidations, [n |-> add_count + 1, event |-> e])
    /\ q_kind' = "none"
    /\ q_now' = 0
    /\ q_hours' = 0
    /\ q_symbol' = "none"
    /\ q_result' = <<>>
    /\ q_before' = <<>>
    /\ max_size' = max_size

\* add(liquidation), called directly.
StoreAdd(e) ==
    /\ add_count < MaxAdds
    /\ AddToStore(e)
    /\ UNCHANGED notStore

\* Lines 234 and 240: cutoff = datetime.now() - timedelta(hours=hours).
Cutoff(nowH, hours) == nowH - hours

\* get_recent, line 236: the list comprehension over the stored events.
Recent(seq, cutoff) == SelectSeq(seq, LAMBDA liq : liq.event.timestamp > cutoff)

\* A symbol filter whose window includes the cutoff itself.
BySymbolInclusive(seq, symbol, cutoff) ==
    SelectSeq(seq, LAMBDA liq : liq.event.symbol = symbol /\ liq.event.timestamp >= cutoff)

\* get_by_symbol, lines 242-245.
BySymbol(seq, symbol, cutoff) ==
    SelectSeq(seq, LAMBDA liq : liq.event.symbol = symbol /\ liq.event.timestamp > cutoff)

\* dict.get(level, 0) + usd_value, lines 257 and 259.
Accumulate(dict, level, usd) ==
    IF level \in DOMAIN dict
    THEN [dict EXCEPT ![level] = @ + usd]
    ELSE [l \in DOMAIN dict \cup {level} |-> IF l = level THEN usd ELSE dict[l]]

\* get_aggregated, lines 254-259: the loop over the matching events, for one side.
RECURSIVE LevelSums(_, _, _)
LevelSums(liqs, long, dict) ==
    IF liqs = <<>> THEN dict
    ELSE LET e == Head(liqs).event
         IN IF (e.side = "LONG") = long
            THEN LevelSums(Tail(liqs), long, Accumulate(dict, e.price_level, e.usd_value))
            ELSE LevelSums(Tail(liqs), long, dict)

\* sum(liq['usd_value'] for liq in liquidations), line 267.
RECURSIVE TotalUsd(_)
TotalUsd(liqs) ==
    IF liqs = <<>> THEN 0 ELSE Head(liqs).event.usd_value + TotalUsd(Tail(liqs))

\* get_aggregated, lines 249-268.
Aggregated(seq, symbol, hours, nowH) ==
    LET liqs == BySymbol(seq, symbol, Cutoff(nowH, hours))
    IN [long_liquidations |-> LevelSums(liqs, TRUE, <<>>),
        short_liquidations |-> LevelSums(liqs, FALSE, <<>>),
        data_type |-> "REALIZED",
        period_hours |-> hours,
        count |-> Len(liqs),
        total_usd |-> TotalUsd(liqs)]

\* get_recent(hours), called when datetime.now() is nowH.
GetRecent(nowH, hours) ==
    /\ q_kind' = "recent"
    /\ q_now' = nowH
    /\ q_hours' = hours
    /\ q_symbol' = "none"
    /\ q_result' = Recent(liquidations, Cutoff(nowH, hours))
    /\ q_before' = liquidations
    /\ UNCHANGED <<max_size, liquidations, add_count>>
    /\ UNCHANGED notStore

\* get_by_symbol(symbol, hours).
GetBySymbol(nowH, symbol, hours) ==
    /\ q_kind' = "by_symbol"
    /\ q_now' = nowH
    /\ q_hours' = hours
    /\ q_symbol' = symbol
    /\ q_result' = BySymbol(liquidations, symbol, Cutoff(nowH, hours))
    /\ q_before' = liquidations
    /\ UNCHANGED <<max_size, liquidations, add_count>>
    /\ UNCHANGED notStore

\* get_aggregated(symbol, hours).
GetAggregated(nowH, symbol, hours) ==
    /\ q_kind' = "aggregated"
    /\ q_now' = nowH
    /\ q_hours' = hours
    /\ q_symbol' = symbol
    /\ q_result' = Aggregated(liquidations, symbol, hours, nowH)
    /\ q_before' = liquidations
    /\ UNCHANGED <<max_size, liquidations, add_count>>
    /\ UNCHANGED notStore

NextStore ==
    \/ \E e \in Events : StoreAdd(e)
    \/ \E nowH \in QueryTimes, hours \in QueryHours : GetRecent(nowH, hours)
    \/ \E nowH \in QueryTimes, symbol \in Symbols, hours \in QueryHours :
          GetBySymbol(nowH, symbol, hours)
    \/ \E nowH \in QueryTimes, symbol \in Symbols, hours \in QueryHours :
          GetAggregated(nowH, symbol, hours)

(***************************************************************************)
(* LiquidationWebSocketCollector: start, _connect, stop                    *)
(***************************************************************************)
\* Line 272: the collector is constructed without arguments, so symbols is
\* None, which like the empty list is false in "symbols or [...]".
ConstructorSymbols == {}

\* __init__, line 27: self.symbols = symbols or ["BTCUSDT", "ETHUSDT", "SOLUSDT"].
TrackedSymbols(given) ==
    IF given = {} THEN {"BTCUSDT", "ETHUSDT", "SOLUSDT"} ELSE given

InitColl ==
    /\ running = FALSE
    /\ ws = "none"
    /\ coll_pc = "stopped"
    /\ connects = 0
    /\ messages = 0
    /\ last_end = "none"
    /\ slept = 0
    /\ gap = 0
    /\ symbols = TrackedSymbols(ConstructorSymbols)
    /\ on_liquidation = "none"
    /\ coll_now = 0
    /\ buffer = <<>>
    /\ last_flush = 0
    /\ accepted = <<>>
    /\ on_calls = <<>>
    /\ h_elapsed = -1
    /\ h_len = 0
    /\ h_drained = FALSE
    /\ h_discarded = "none"

\* start_liquidation_collector, lines 276-280, and start, lines 175-178: set
\* the callback, set running and enter _connect.
CollStart ==
    /\ coll_pc = "stopped"
    /\ running' = TRUE
    /\ coll_pc' = "loop"
    /\ on_liquidation' = "store_add"
    /\ UNCHANGED <<ws, connects, messages, last_end, slept, gap>>
    /\ UNCHANGED <<symbols, coll_now, buffer, last_flush, accepted, on_calls,
                   h_elapsed, h_len, h_drained, h_discarded>>
    /\ UNCHANGED notColl

\* Line 155 with the flag set, then line 159: open a connection.
ConnectBegin ==
    /\ coll_pc = "loop"
    /\ running
    /\ connects < MaxConnects
    /\ connects' = connects + 1
    /\ gap' = slept
    /\ slept' = 0
    /\ coll_pc' = "connecting"
    /\ UNCHANGED <<running, ws, messages, last_end>>
    /\ UNCHANGED bufVars
    /\ UNCHANGED notColl

\* Line 155 with the flag cleared: _connect returns.
LoopExit ==
    /\ coll_pc = "loop"
    /\ ~running
    /\ coll_pc' = "exited"
    /\ UNCHANGED <<running, ws, connects, messages, last_end, slept, gap>>
    /\ UNCHANGED bufVars
    /\ UNCHANGED notColl

\* Lines 159-160: the connection opens.
ConnectOk ==
    /\ coll_pc = "connecting"
    /\ ws' = "open"
    /\ coll_pc' = "streaming"
    /\ UNCHANGED <<running, connects, messages, last_end, slept, gap>>
    /\ UNCHANGED bufVars
    /\ UNCHANGED notColl

\* Line 159 raises (refused, handshake failure): the handler of lines 171-173.
ConnectFails ==
    /\ coll_pc = "connecting"
    /\ last_end' = "connect_error"
    /\ coll_pc' = "sleeping"
    /\ UNCHANGED <<running, ws, connects, messages, slept, gap>>
    /\ UNCHANGED bufVars
    /\ UNCHANGED notColl

\* round(n / d): Python rounds a tie to the even neighbour.
RoundHalfEven(n, d) ==
    LET q == n \div d
        r == n % d
    IN IF 2 * r < d THEN q
       ELSE IF 2 * r > d THEN q + 1
       ELSE IF q % 2 = 0 THEN q ELSE q + 1

\* _parse_liquidation, lines 46-54: whether the message is a force order of a
\* tracked symbol.
Accepts(data) == "o" \in DOMAIN data /\ data.o.s \in symbols

\* _parse_liquidation, lines 56-78: the event of an accepted message. The
\* timestamp is kept in hours.
ParseLiquidation(data) ==
    LET order == data.o
    IN [timestamp |-> order.T \div 3600000,
        symbol |-> order.s,
        side |-> IF order.S = "SELL" THEN "LONG" ELSE "SHORT",
        usd_value |-> order.p * order.q,
        price_level |-> RoundHalfEven(order.p, 1000) * 1000]

\* (datetime.now() - self._last_flush).seconds, line 130: the seconds field of
\* the timedelta, which leaves out its days and its microseconds.
ElapsedSeconds(nowT, last) == ((nowT - last) % HalfSecondsPerDay) \div 2

\* _check_flush, lines 127-131.
ShouldFlush(buf, nowT, last) ==
    \/ Len(buf) >= BUFFER_SIZE
    \/ ElapsedSeconds(nowT, last) > FLUSH_INTERVAL

\* A callback that is skipped when the buffer is about to be flushed.
CallbackInvokedUnlessFlush(flush) == on_liquidation # "none" /\ ~flush

\* Lines 111-115: the callback is called for every accepted event, before the
\* flush check.
CallbackInvoked(flush) == on_liquidation # "none"

\* Lines 163-166: a message arrives while the flag is set and _process_message
\* handles it (lines 84-121), the flush check and the flush included.
MessageProcessed(data) ==
    /\ coll_pc = "streaming"
    /\ ws = "open"
    /\ running
    /\ messages < MaxMessages
    /\ messages' = messages + 1
    /\ h_discarded' = IF Accepts(data) THEN "kept"
                      ELSE IF "o" \in DOMAIN data THEN "symbol" ELSE "not_order"
    /\ IF ~Accepts(data)
       THEN /\ UNCHANGED <<symbols, on_liquidation, coll_now, buffer, last_flush,
                           accepted, on_calls, h_elapsed, h_len, h_drained>>
            /\ UNCHANGED storeVars
       ELSE LET liq == ParseLiquidation(data)
                buf == Append(buffer, liq)
                flush == ShouldFlush(buf, coll_now, last_flush)
            IN /\ accepted' = Append(accepted, liq)
               /\ IF CallbackInvoked(flush)
                  THEN /\ on_calls' = Append(on_calls, liq)
                       /\ AddToStore(liq)
                  ELSE UNCHANGED <<on_calls, storeVars>>
               /\ buffer' = IF flush THEN <<>> ELSE buf
               /\ last_flush' = IF flush THEN coll_now ELSE last_flush
               /\ h_elapsed' = coll_now - last_flush
               /\ h_len' = Len(buf)
               /\ h_drained' = flush
               /\ UNCHANGED <<symbols, on_liquidation, coll_now>>
    /\ UNCHANGED <<running, ws, coll_pc, connects, last_end, slept, gap>>
    /\ UNCHANGED notCollStore

\* Lines 163-165: a message arrives after the flag was cleared: break; leaving
\* the async with block closes the connection.
MessageBreaks ==
    /\ coll_pc = "streaming"
    /\ ws = "open"
    /\ ~running
    /\ ws' = "closed"
    /\ last_end' = "break"
    /\ coll_pc' = "loop"
    /\ UNCHANGED <<running, connects, messages, slept, gap>>
    /\ UNCHANGED bufVars
    /\ UNCHANGED notColl

\* Line 163: the peer closes the connection cleanly (close code 1000 or 1001).
\* The async iterator of the connection ends without raising, the for loop and
\* the async with block are left normally and control is back at line 155.
PeerClosesCleanly ==
    /\ coll_pc = "streaming"
    /\ ws = "open"
    /\ ws' = "closed"
    /\ last_end' = "clean_close"
    /\ coll_pc' = "loop"
    /\ UNCHANGED <<running, connects, messages, slept, gap>>
    /\ UNCHANGED bufVars
    /\ UNCHANGED notColl

\* Line 163 raises ConnectionClosedError (the connection is lost or closed with
\* an error code): the handler of lines 168-170.
ConnectionLost ==
    /\ coll_pc = "streaming"
    /\ ws = "open"
    /\ ws' = "closed"
    /\ last_end' = "connection_error"
    /\ coll_pc' = "sleeping"
    /\ UNCHANGED <<running, connects, messages, slept, gap>>
    /\ UNCHANGED bufVars
    /\ UNCHANGED notColl

\* Lines 163-166 raise another exception: the handler of lines 171-173.
StreamRaises ==
    /\ coll_pc = "streaming"
    /\ ws = "open"
    /\ ws' = "closed"
    /\ last_end' = "error"
    /\ coll_pc' = "sleeping"
    /\ UNCHANGED <<running, connects, messages, slept, gap>>
    /\ UNCHANGED bufVars
    /\ UNCHANGED notColl

\* Line 163 after stop closed the connection: the iterator ends without raising.
LocalCloseEndsStream ==
    /\ coll_pc = "streaming"
    /\ ws = "closed"
    /\ last_end' = "stopped"
    /\ coll_pc' = "loop"
    /\ UNCHANGED <<running, ws, connects, messages, slept, gap>>
    /\ UNCHANGED bufVars
    /\ UNCHANGED notColl

\* Lines 170 and 173: asyncio.sleep(5) returns.
SleepEnds ==
    /\ coll_pc = "sleeping"
    /\ slept' = slept + ReconnectDelay
    /\ coll_pc' = "loop"
    /\ UNCHANGED <<running, ws, connects, messages, last_end, gap>>
    /\ UNCHANGED bufVars
    /\ UNCHANGED notColl

\* stop, lines 193-199: clear the flag, close self.ws if one was set, and
\* flush the buffer (lines 138-144: nothing happens when it is empty).
CollStop ==
    /\ running
    /\ running' = FALSE
    /\ ws' = IF ws = "none" THEN "none" ELSE "closed"
    /\ buffer' = <<>>
    /\ last_flush' = IF buffer = <<>> THEN last_flush ELSE coll_now
    /\ UNCHANGED <<coll_pc, connects, messages, last_end, slept, gap>>
    /\ UNCHANGED <<symbols, on_liquidation, coll_now, accepted, on_calls,
                   h_elapsed, h_len, h_drained, h_discarded>>
    /\ UNCHANGED notColl

\* Time passes: the clock moves on to a later reading.
CollTick(t) ==
    /\ coll_pc # "exited"
    /\ t > coll_now
    /\ coll_now' = t
    /\ UNCHANGED <<symbols, on_liquidation, buffer, last_flush, accepted, on_calls,
                   h_elapsed, h_len, h_drained, h_discarded>>
    /\ UNCHANGED collVars
    /\ UNCHANGED notColl

NextColl ==
    \/ CollStart
    \/ ConnectBegin
    \/ LoopExit
    \/ ConnectOk
    \/ ConnectFails
    \/ \E data \in CollMessages : MessageProcessed(data)
    \/ MessageBreaks
    \/ PeerClosesCleanly
    \/ ConnectionLost
    \/ StreamRaises
    \/ LocalCloseEndsStream
    \/ SleepEnds
    \/ CollStop
    \/ \E t \in CollTimes : CollTick(t)

(***************************************************************************)
(* The buffer and _buffer_lock, thread by thread: the collector's thread   *)
(* runs _process_message, another thread calls stop                        *)
(***************************************************************************)
FlushThreads == {"handler", "stop"}

InitFlush ==
    /\ buffer_lock = "none"
    /\ fl_pc = [who \in FlushThreads |-> "idle"]
    /\ fl_liq = <<>>
    /\ fl_copy = [who \in FlushThreads |-> <<>>]
    /\ fl_batches = <<>>
    /\ fl_sink = <<>>

\* A lock that never makes a thread wait.
AcquirableAlways(holder) == TRUE

\* with self._buffer_lock (threading.Lock, line 32): a thread enters the block
\* only while no thread holds the lock.
Acquirable(holder) == holder = "none"

\* Where a thread is once its _flush_buffer call has returned.
AfterFlush(who) == IF who = "handler" THEN "idle" ELSE "stopped"

\* Lines 163-166 and 86-98: a message arrives while the flag is set; the
\* parser discards it (line 90) or returns its event.
HandlerParses(data) ==
    /\ coll_pc = "streaming"
    /\ ws = "open"
    /\ running
    /\ messages < MaxMessages
    /\ fl_pc["handler"] = "idle"
    /\ messages' = messages + 1
    /\ h_discarded' = IF Accepts(data) THEN "kept"
                      ELSE IF "o" \in DOMAIN data THEN "symbol" ELSE "not_order"
    /\ IF Accepts(data)
       THEN /\ fl_liq' = <<ParseLiquidation(data)>>
            /\ accepted' = Append(accepted, ParseLiquidation(data))
            /\ fl_pc' = [fl_pc EXCEPT !["handler"] = "append"]
       ELSE UNCHANGED <<fl_liq, accepted, fl_pc>>
    /\ UNCHANGED <<buffer_lock, fl_copy, fl_batches, fl_sink>>
    /\ UNCHANGED <<running, ws, coll_pc, connects, last_end, slept, gap>>
    /\ UNCHANGED <<symbols, on_liquidation, coll_now, buffer, last_flush, on_calls,
                   h_elapsed, h_len, h_drained>>
    /\ UNCHANGED storeVars
    /\ UNCHANGED notFlush

\* Lines 101-103: the append, inside the lock.
HandlerAppends ==
    /\ fl_pc["handler"] = "append"
    /\ Acquirable(buffer_lock)
    /\ buffer' = Append(buffer, fl_liq[1])
    /\ fl_pc' = [fl_pc EXCEPT !["handler"] = "callback"]
    /\ UNCHANGED <<buffer_lock, fl_liq, fl_copy, fl_batches, fl_sink>>
    /\ UNCHANGED collVars
    /\ UNCHANGED <<symbols, on_liquidation, coll_now, last_flush, accepted, on_calls,
                   h_elapsed, h_len, h_drained, h_discarded>>
    /\ UNCHANGED storeVars
    /\ UNCHANGED notFlush

\* Lines 111-115: the callback, when one is set.
HandlerCallback ==
    /\ fl_pc["handler"] = "callback"
    /\ IF on_liquidation # "none"
       THEN /\ on_calls' = Append(on_calls, fl_liq[1])
            /\ AddToStore(fl_liq[1])
       ELSE UNCHANGED <<on_calls, storeVars>>
    /\ fl_pc' = [fl_pc EXCEPT !["handler"] = "check"]
    /\ UNCHANGED <<buffer_lock, fl_liq, fl_copy, fl_batches, fl_sink>>
    /\ UNCHANGED collVars
    /\ UNCHANGED <<symbols, on_liquidation, coll_now, buffer, last_flush, accepted,
                   h_elapsed, h_len, h_drained, h_discarded>>
    /\ UNCHANGED notFlush

\* _check_flush, lines 123-134: the two tests inside the lock, then the call
\* of _flush_buffer or the return.
HandlerChecks ==
    /\ fl_pc["handler"] = "check"
    /\ Acquirable(buffer_lock)
    /\ fl_pc' = [fl_pc EXCEPT !["handler"] =
                    IF ShouldFlush(buffer, coll_now, last_flush) THEN "flush" ELSE "idle"]
    /\ fl_liq' = <<>>
    /\ h_elapsed' = coll_now - last_flush
    /\ h_len' = Len(buffer)
    /\ UNCHANGED <<buffer_lock, fl_copy, fl_batches, fl_sink>>
    /\ UNCHANGED collVars
    /\ UNCHANGED <<symbols, on_liquidation, coll_now, buffer, last_flush, accepted,
                   on_calls, h_drained, h_discarded>>
    /\ UNCHANGED storeVars
    /\ UNCHANGED notFlush

\* stop, lines 193-197: clear the flag and close the connection; the flush
\* follows.
StopCalled ==
    /\ fl_pc["stop"] = "idle"
    /\ running
    /\ running' = FALSE
    /\ ws' = IF ws = "none" THEN "none" ELSE "closed"
    /\ fl_pc' = [fl_pc EXCEPT !["stop"] = "flush"]
    /\ UNCHANGED <<buffer_lock, fl_liq, fl_copy, fl_batches, fl_sink>>
    /\ UNCHANGED <<coll_pc, connects, messages, last_end, slept, gap>>
    /\ UNCHANGED bufVars
    /\ UNCHANGED storeVars
    /\ UNCHANGED notFlush

\* _flush_buffer, lines 138-140: take the lock; with an empty buffer return.
FlushEnters(who) ==
    /\ fl_pc[who] = "flush"
    /\ Acquirable(buffer_lock)
    /\ IF buffer = <<>>
       THEN /\ fl_pc' = [fl_pc EXCEPT ![who] = AfterFlush(who)]
            /\ UNCHANGED buffer_lock
       ELSE /\ fl_pc' = [fl_pc EXCEPT ![who] = "copy"]
            /\ buffer_lock' = who
    /\ UNCHANGED <<fl_liq, fl_copy, fl_batches, fl_sink>>
    /\ UNCHANGED collVars
    /\ UNCHANGED bufVars
    /\ UNCHANGED storeVars
    /\ UNCHANGED notFlush

\* Line 142: buffer_copy = self._buffer.copy().
FlushCopies(who) ==
    /\ fl_pc[who] = "copy"
    /\ fl_copy' = [fl_copy EXCEPT ![who] = buffer]
    /\ fl_pc' = [fl_pc EXCEPT ![who] = "clear"]
    /\ UNCHANGED <<buffer_lock, fl_liq, fl_batches, fl_sink>>
    /\ UNCHANGED collVars
    /\ UNCHANGED bufVars
    /\ UNCHANGED storeVars
    /\ UNCHANGED notFlush

\* Lines 143-144 and the end of the with block: the buffer is replaced by an
\* empty list, the flush time is set and the lock is released. buffer_copy is
\* the batch of this flush.
FlushClears(who) ==
    /\ fl_pc[who] = "clear"
    /\ buffer' = <<>>
    /\ last_flush' = coll_now
    /\ buffer_lock' = "none"
    /\ fl_batches' = Append(fl_batches, fl_copy[who])
    /\ h_drained' = TRUE
    /\ fl_pc' = [fl_pc EXCEPT ![who] = "log"]
    /\ UNCHANGED <<fl_liq, fl_copy, fl_sink>>
    /\ UNCHANGED collVars
    /\ UNCHANGED <<symbols, on_liquidation, coll_now, accepted, on_calls, h_elapsed,
                   h_len, h_discarded>>
    /\ UNCHANGED storeVars
    /\ UNCHANGED notFlush

\* Lines 146-151: outside the lock, the batch is logged (the database insert
\* is a comment).
FlushLogs(who) ==
    /\ fl_pc[who] = "log"
    /\ fl_sink' = Append(fl_sink, fl_copy[who])
    /\ fl_copy' = [fl_copy EXCEPT ![who] = <<>>]
    /\ fl_pc' = [fl_pc EXCEPT ![who] = AfterFlush(who)]
    /\ UNCHANGED <<buffer_lock, fl_liq, fl_batches>>
    /\ UNCHANGED collVars
    /\ UNCHANGED bufVars
    /\ UNCHANGED storeVars
    /\ UNCHANGED notFlush

NextFlush ==
    \/ CollStart
    \/ ConnectBegin
    \/ ConnectOk
    \/ \E data \in CollMessages : HandlerParses(data)
    \/ HandlerAppends
    \/ HandlerCallback
    \/ HandlerChecks
    \/ StopCalled
    \/ \E who \in FlushThreads : FlushEnters(who)
    \/ \E who \in FlushThreads : FlushCopies(who)
    \/ \E who \in FlushThreads : FlushClears(who)
    \/ \E who \in FlushThreads : FlushLogs(who)
    \/ \E t \in CollTimes : CollTick(t)


(***************************************************************************)
(* LiquidationFetcher.get_heatmap and its cache                            *)
(***************************************************************************)
\* No result, and no cache entry.
NoResult ==
    [source |-> "none", symbol |-> "none", data_of |-> "none", keys |-> {}, from |-> "none"]
NoCached == [cached |-> FALSE, at |-> 0, data |-> NoResult]

InitHeat ==
    /\ heat_now = 0
    /\ heat_cache = [s \in HeatSymbols |-> NoCached]
    /\ heat_pc = "idle"
    /\ heat_symbol = "none"
    /\ heat_result = NoResult
    /\ heat_from_cache = FALSE
    /\ heat_age = 0
    /\ heat_obtained = {}

\* The keys of the dict calculate_complete_heatmap returns
\* (analysis/liquidation_heatmap.py, lines 302-310).
CompleteHeatmapKeys ==
    {"symbol", "current_price", "timestamp", "fragility", "estimated_liquidations",
     "major_zones", "insight"}

\* get_heatmap, lines 280-291: the live result. Its symbol is the one
\* calculate_complete_heatmap writes (analysis/liquidation_heatmap.py, line 303).
LiveResult(symbol) ==
    [source |-> "binance_live",
     symbol |-> "BTCUSDT",
     data_of |-> symbol,
     keys |-> CompleteHeatmapKeys \cup {"timestamp", "source"},
     from |-> "live"]

\* _get_fallback_data, lines 308-356, with the key the caller adds.
FallbackResult(symbol, extra) ==
    [source |-> "estimated_fallback",
     symbol |-> symbol,
     data_of |-> symbol,
     keys |-> {"symbol", "current_price", "timestamp", "source", "fragility",
               "estimated_liquidations", "major_zones", "insight", extra},
     from |-> "synthetic"]

\* (datetime.utcnow() - cached_time).seconds, line 27: the seconds field of the
\* timedelta, which leaves out its days.
CachedSeconds(nowT, at) == (nowT - at) % SecondsPerDay

\* _get_cached, lines 25-30: whether the entry is returned.
HeatFresh(entry, nowT) ==
    /\ entry.cached
    /\ CachedSeconds(nowT, entry.at) < HeatCacheTtl

\* A check that leaves out the order book depth.
HeatRequiredWithoutDepth == {"oi", "funding", "prices"}

\* Line 259: the inputs whose absence makes get_heatmap return the fallback.
HeatRequired == {"oi", "funding", "prices", "depth"}

\* An exception handler that lets the exception through.
HeatCaughtNothing == FALSE

\* Lines 237 and 298: the try block catches every exception of the live path.
HeatCaught == TRUE

\* get_heatmap, lines 230-235: the cache check.
HeatCall(symbol) ==
    /\ heat_pc = "idle"
    /\ IF HeatFresh(heat_cache[symbol], heat_now)
       THEN /\ heat_result' = heat_cache[symbol].data
            /\ heat_from_cache' = TRUE
            /\ heat_age' = heat_now - heat_cache[symbol].at
            /\ UNCHANGED heat_pc
       ELSE /\ heat_pc' = "fetching"
            /\ heat_result' = NoResult
            /\ heat_from_cache' = FALSE
            /\ heat_age' = 0
    /\ heat_symbol' = symbol
    /\ UNCHANGED <<heat_now, heat_cache, heat_obtained>>
    /\ UNCHANGED notHeat

\* get_heatmap, lines 237-306: the five fetches have ended with the inputs in
\* obtained; the computation of lines 270-288 raises or not.
HeatFetchEnds(obtained, raises) ==
    /\ heat_pc = "fetching"
    /\ heat_obtained' = obtained
    /\ IF ~(HeatRequired \subseteq obtained)
       THEN /\ heat_result' = FallbackResult(heat_symbol, "_debug_missing")
            /\ heat_pc' = "idle"
            /\ UNCHANGED heat_cache
       ELSE IF ~raises
       THEN /\ heat_result' = LiveResult(heat_symbol)
            /\ heat_pc' = "idle"
            /\ heat_cache' = [heat_cache EXCEPT ![heat_symbol] =
                                 [cached |-> TRUE, at |-> heat_now,
                                  data |-> LiveResult(heat_symbol)]]
       ELSE IF HeatCaught
       THEN /\ heat_result' = FallbackResult(heat_symbol, "_cache_ttl")
            /\ heat_pc' = "idle"
            /\ heat_cache' = [heat_cache EXCEPT ![heat_symbol] =
                                 [cached |-> TRUE, at |-> heat_now,
                                  data |-> FallbackResult(heat_symbol, "_cache_ttl")]]
       ELSE /\ heat_result' = NoResult
            /\ heat_pc' = "raised"
            /\ UNCHANGED heat_cache
    /\ UNCHANGED <<heat_now, heat_symbol, heat_from_cache, heat_age>>
    /\ UNCHANGED notHeat

\* Time passes: the clock moves on to a later reading.
HeatTick(t) ==
    /\ t > heat_now
    /\ heat_now' = t
    /\ UNCHANGED <<heat_cache, heat_pc, heat_symbol, heat_result, heat_from_cache,
                   heat_age, heat_obtained>>
    /\ UNCHANGED notHeat

NextHeat ==
    \/ \E symbol \in HeatSymbols : HeatCall(symbol)
    \/ \E obtained \in SUBSET HeatInputs, raises \in BOOLEAN :
          HeatFetchEnds(obtained, raises)
    \/ \E t \in HeatTimes : HeatTick(t)

(***************************************************************************)
(* scoring/fragility.py: calculate_fragility_score                         *)
(***************************************************************************)
\* Numbers are exact fractions n/d; a division by zero leaves d = 0, which
\* stands for the ZeroDivisionError the division raises.
RECURSIVE Gcd(_, _)
Gcd(a, b) == IF b = 0 THEN a ELSE Gcd(b, a % b)

\* The fraction n/d (n >= 0, d >= 0) in lowest terms.
Frac(n, d) ==
    IF d = 0 THEN [n |-> n, d |-> d]
    ELSE [n |-> n \div Gcd(n, d), d |-> d \div Gcd(n, d)]

Abs(x) == IF x < 0 THEN -x ELSE x

\* min(100.0, x)
Min100(f) ==
    IF f.d = 0 THEN f
    ELSE IF f.n >= 100 * f.d THEN Frac(100, 1) ELSE f

\* A guard that lets a depth of zero through.
DepthGuardNegativeOnly(depth_2pct_usd) == depth_2pct_usd < 0

\* calculate_L_d, line 47.
DepthGuard(depth_2pct_usd) == depth_2pct_usd <= 0

\* calculate_L_d, lines 38-51.
calculate_L_d(open_interest_usd, depth_2pct_usd) ==
    IF DepthGuard(depth_2pct_usd) THEN Frac(100, 1)
    ELSE Min100(Frac(open_interest_usd, depth_2pct_usd * 10))

RECURSIVE SumSeq(_)
SumSeq(xs) == IF xs = <<>> THEN 0 ELSE Head(xs) + SumSeq(Tail(xs))

RECURSIVE SumSquares(_)
SumSquares(xs) == IF xs = <<>> THEN 0 ELSE Head(xs) * Head(xs) + SumSquares(Tail(xs))

\* The integer square root.
ISqrt(n) == CHOOSE r \in 0..n : r * r <= n /\ (r + 1) * (r + 1) > n

\* calculate_F_sigma, lines 54-75. With n values of sum S and sum of squares
\* Q, the mean is S/n and the standard deviation sqrt(n*Q - S*S)/n, so the
\* z-score is |n*current - S| / sqrt(n*Q - S*S).
calculate_F_sigma(current_funding, funding_7d) ==
    IF Len(funding_7d) < 3 THEN Frac(50, 1)
    ELSE LET n == Len(funding_7d)
             S == SumSeq(funding_7d)
             D == n * SumSquares(funding_7d) - S * S
         IN IF D = 0 THEN Frac(50, 1)
            ELSE Min100(Frac(20 * Abs(n * current_funding - S), ISqrt(D)))

\* calculate_B_z, lines 78-93.
calculate_B_z(spot_price, perp_price) ==
    IF spot_price <= 0 THEN Frac(50, 1)
    ELSE Min100(Frac(1000 * Abs(spot_price - perp_price), spot_price))

\* Line 117: phi = (L_d + F_sigma + B_z) / 3.
Phi(L_d, F_sigma, B_z) ==
    Frac(L_d.n * F_sigma.d * B_z.d + F_sigma.n * L_d.d * B_z.d + B_z.n * L_d.d * F_sigma.d,
         3 * L_d.d * F_sigma.d * B_z.d)

\* round(x, 1), in tenths.
Round1(f) == RoundHalfEven(10 * f.n, f.d)

\* Lines 120-135: the level, from phi as computed.
LevelOf(phi) ==
    IF phi.n <= 25 * phi.d THEN "Stable"
    ELSE IF phi.n <= 50 * phi.d THEN "Caution"
    ELSE IF phi.n <= 75 * phi.d THEN "Fragile"
    ELSE "Critical"

\* No call has returned.
NoFragility ==
    [state |-> "none", score |-> 0, level |-> "none", L_d |-> 0, F_sigma |-> 0, B_z |-> 0]

\* calculate_fragility_score, lines 96-160; score and component values in
\* tenths.
calculate_fragility_score(a) ==
    LET L_d == calculate_L_d(a.open_interest_usd, a.depth_2pct_usd)
        F_sigma == calculate_F_sigma(a.current_funding, a.funding_7d)
        B_z == calculate_B_z(a.spot_price, a.perp_price)
    IN IF L_d.d = 0 \/ F_sigma.d = 0 \/ B_z.d = 0
       THEN [NoFragility EXCEPT !.state = "raised"]
       ELSE [state |-> "returned",
             score |-> Round1(Phi(L_d, F_sigma, B_z)),
             level |-> LevelOf(Phi(L_d, F_sigma, B_z)),
             L_d |-> Round1(L_d),
             F_sigma |-> Round1(F_sigma),
             B_z |-> Round1(B_z)]

InitFrag ==
    /\ frag_in \in FragInputs
    /\ frag_out = NoFragility

CalculateFragility ==
    /\ frag_out.state = "none"
    /\ frag_out' = calculate_fragility_score(frag_in)
    /\ UNCHANGED frag_in
    /\ UNCHANGED notFrag

NextFrag == CalculateFragility

(***************************************************************************)
(* analysis/liquidation_heatmap.py: calculate_complete_heatmap             *)
(***************************************************************************)
\* LEVERAGE_DISTRIBUTION, lines 7-13, in the order of the dict; weights in
\* percent.
LEVERAGE_DISTRIBUTION ==
    <<[leverage |-> 5, weight |-> 10], [leverage |-> 10, weight |-> 25],
      [leverage |-> 20, weight |-> 30], [leverage |-> 50, weight |-> 25],
      [leverage |-> 100, weight |-> 10]>>

\* calculate_liquidation_price, lines 16-30: entry * (1 -+ 0.9/leverage), as
\* the fraction entry * (10*leverage -+ 9) / (10*leverage).
calculate_liquidation_price(entry_price, leverage, is_long) ==
    IF is_long
    THEN Frac(entry_price * (10 * leverage - 9), 10 * leverage)
    ELSE Frac(entry_price * (10 * leverage + 9), 10 * leverage)

\* An estimate that takes every market for balanced.
AlwaysBalancedRatio(funding_rate) == [long |-> 50, short |-> 50]

\* estimate_long_short_ratio, lines 33-52, in percent.
estimate_long_short_ratio(funding_rate) ==
    IF funding_rate > 50 THEN [long |-> 60, short |-> 40]
    ELSE IF funding_rate > 20 THEN [long |-> 55, short |-> 45]
    ELSE IF funding_rate < -50 THEN [long |-> 40, short |-> 60]
    ELSE IF funding_rate < -20 THEN [long |-> 45, short |-> 55]
    ELSE [long |-> 50, short |-> 50]

\* A range test that keeps only the levels within half the range.
InLongRangeHalved(p, current_price, price_range_pct) ==
    /\ (200 - price_range_pct) * current_price * p.d <= 200 * p.n
    /\ p.n < current_price * p.d

\* Lines 94 and 102, with min_price = current_price * (1 - price_range_pct)
\* and max_price = current_price * (1 + price_range_pct) (lines 84-85).
InLongRange(p, current_price, price_range_pct) ==
    /\ (100 - price_range_pct) * current_price * p.d <= 100 * p.n
    /\ p.n < current_price * p.d

InShortRange(p, current_price, price_range_pct) ==
    /\ current_price * p.d < p.n
    /\ 100 * p.n <= (100 + price_range_pct) * current_price * p.d

\* Lines 95 and 103: round(price / 1000) * 1000.
LevelOfPrice(p) == RoundHalfEven(p.n, 1000 * p.d) * 1000

\* Lines 97 and 105: liqs[level] = liqs.get(level, 0) + estimated_usd, on a
\* dict kept as the sequence of its items in insertion order.
AddToLevel(liqs, level, estimated_usd) ==
    IF \E i \in 1..Len(liqs) : liqs[i].price = level
    THEN [i \in 1..Len(liqs) |->
             IF liqs[i].price = level
             THEN [liqs[i] EXCEPT !.usd = @ + estimated_usd]
             ELSE liqs[i]]
    ELSE Append(liqs, [price |-> level, usd |-> estimated_usd])

\* Lines 90-106 for the tiers up to the k-th, one side. A ratio in percent
\* times a weight in percent times millions: USD values are in units of $100.
RECURSIVE SideLiquidations(_, _, _, _, _, _)
SideLiquidations(k, current_price, oi_usd, ratio, is_long, price_range_pct) ==
    IF k = 0 THEN <<>>
    ELSE LET before == SideLiquidations(k - 1, current_price, oi_usd, ratio, is_long,
                                        price_range_pct)
             tier == LEVERAGE_DISTRIBUTION[k]
             p == calculate_liquidation_price(current_price, tier.leverage, is_long)
             inRange == IF is_long THEN InLongRange(p, current_price, price_range_pct)
                        ELSE InShortRange(p, current_price, price_range_pct)
         IN IF inRange
            THEN AddToLevel(before, LevelOfPrice(p), oi_usd * ratio * tier.weight)
            ELSE before

\* sum(liqs.values()), lines 111-112.
RECURSIVE SumValues(_)
SumValues(liqs) == IF liqs = <<>> THEN 0 ELSE Head(liqs).usd + SumValues(Tail(liqs))

\* estimate_liquidation_heatmap, lines 55-120.
estimate_liquidation_heatmap(current_price, oi_usd, funding_rate, price_range_pct) ==
    LET r == estimate_long_short_ratio(funding_rate)
        long_liqs == SideLiquidations(Len(LEVERAGE_DISTRIBUTION), current_price, oi_usd,
                                      r.long, TRUE, price_range_pct)
        short_liqs == SideLiquidations(Len(LEVERAGE_DISTRIBUTION), current_price, oi_usd,
                                       r.short, FALSE, price_range_pct)
    IN [long_liquidations |-> long_liqs,
        short_liquidations |-> short_liqs,
        total_long_at_risk |-> SumValues(long_liqs),
        total_short_at_risk |-> SumValues(short_liqs),
        long_ratio |-> r.long,
        short_ratio |-> r.short]

\* Lines 160 and 169: usd >= 500e6.
IsMajor(usd) == usd >= MajorZoneUsd * 10000

\* Lines 159-176, one side: the major buckets in the order of the dict.
RECURSIVE ZonesOf(_, _, _)
ZonesOf(liqs, side, current_price) ==
    IF liqs = <<>> THEN <<>>
    ELSE LET rest == ZonesOf(Tail(liqs), side, current_price)
             zone == [price |-> Head(liqs).price,
                      usd_value |-> Head(liqs).usd,
                      side |-> side,
                      distance_pct |-> Frac(100 * Abs(Head(liqs).price - current_price),
                                            current_price)]
         IN IF IsMajor(Head(liqs).usd) THEN <<zone>> \o rest ELSE rest

\* a.distance_pct <= b.distance_pct
NotFarther(a, b) == a.distance_pct.n * b.distance_pct.d <= b.distance_pct.n * a.distance_pct.d

\* list.sort(key=distance_pct), line 179: the sort is stable.
RECURSIVE SortByDistance(_)
SortByDistance(zones) ==
    IF zones = <<>> THEN <<>>
    ELSE LET sorted == SortByDistance(SubSeq(zones, 1, Len(zones) - 1))
             x == zones[Len(zones)]
             k == Cardinality({i \in 1..Len(sorted) : NotFarther(sorted[i], x)})
         IN SubSeq(sorted, 1, k) \o <<x>> \o SubSeq(sorted, k + 1, Len(sorted))

\* get_major_liquidation_zones, lines 148-180.
get_major_liquidation_zones(heatmap, current_price) ==
    SortByDistance(ZonesOf(heatmap.long_liquidations, "LONG", current_price)
                   \o ZonesOf(heatmap.short_liquidations, "SHORT", current_price))

\* generate_heatmap_insight, lines 196-208: the headline, from the score in
\* tenths.
Headline(fragility_score) ==
    IF fragility_score >= 750 THEN "CRITICAL"
    ELSE IF fragility_score >= 500 THEN "FRAGILE"
    ELSE IF fragility_score >= 250 THEN "CAUTION"
    ELSE "STABLE"

\* Lines 213-227: the line about the nearest major zone, if any.
ProximityLine(major_zones) ==
    IF major_zones = <<>> THEN "none"
    ELSE IF major_zones[1].distance_pct.n < 5 * major_zones[1].distance_pct.d THEN "wall"
    ELSE IF major_zones[1].distance_pct.n < 10 * major_zones[1].distance_pct.d THEN "cluster"
    ELSE "none"

\* Lines 229-236: the line about the imbalance of the two sides, if any.
ImbalanceLine(estimated) ==
    IF estimated.total_long_at_risk > estimated.total_short_at_risk * 2 THEN "longs"
    ELSE IF estimated.total_short_at_risk > estimated.total_long_at_risk * 2 THEN "shorts"
    ELSE "none"

\* generate_heatmap_insight, lines 183-243.
generate_heatmap_insight(fragility_score, estimated, current_price) ==
    [summary |-> Headline(fragility_score),
     proximity |-> ProximityLine(get_major_liquidation_zones(estimated, current_price)),
     imbalance |-> ImbalanceLine(estimated)]

\* major_zones[:5], line 308.
FirstZones(zones) == SubSeq(zones, 1, IF Len(zones) < TopZones THEN Len(zones) ELSE TopZones)

\* No call has returned.
NoHeatmap ==
    [state |-> "none", symbol |-> "none", fragility |-> NoFragility,
     price_range_pct |-> 0,
     estimated_liquidations |->
         [long_liquidations |-> <<>>, short_liquidations |-> <<>>,
          total_long_at_risk |-> 0, total_short_at_risk |-> 0,
          long_ratio |-> 0, short_ratio |-> 0],
     all_zones |-> <<>>, major_zones |-> <<>>,
     insight |-> [summary |-> "none", proximity |-> "none", imbalance |-> "none"]]

\* calculate_complete_heatmap, lines 259-310. all_zones is the list
\* get_major_liquidation_zones returned, of which major_zones is the head.
calculate_complete_heatmap(a) ==
    LET fragility == calculate_fragility_score(
                         [open_interest_usd |-> a.oi_usd, depth_2pct_usd |-> a.depth_2pct,
                          current_funding |-> a.funding_rate, funding_7d |-> a.funding_7d,
                          spot_price |-> a.spot_price, perp_price |-> a.current_price])
        heatmap == estimate_liquidation_heatmap(a.current_price, a.oi_usd, a.funding_rate,
                                                DefaultRangePct)
        zones == get_major_liquidation_zones(heatmap, a.current_price)
    IN IF fragility.state = "raised"
       THEN [NoHeatmap EXCEPT !.state = "raised"]
       ELSE [state |-> "returned", symbol |-> "BTCUSDT", fragility |-> fragility,
             price_range_pct |-> DefaultRangePct,
             estimated_liquidations |-> heatmap,
             all_zones |-> zones, major_zones |-> FirstZones(zones),
             insight |-> generate_heatmap_insight(fragility.score, heatmap,
                                                  a.current_price)]

InitHm ==
    /\ hm_in \in HmInputs
    /\ hm_out = NoHeatmap

CalculateCompleteHeatmap ==
    /\ hm_out.state = "none"
    /\ hm_out' = calculate_complete_heatmap(hm_in)
    /\ UNCHANGED hm_in
    /\ UNCHANGED notHm

\* A direct call of estimate_liquidation_heatmap with a price_range_pct.
EstimateHeatmap(price_range_pct) ==
    /\ hm_out.state = "none"
    /\ hm_out' = [NoHeatmap EXCEPT
                     !.state = "estimated",
                     !.price_range_pct = price_range_pct,
                     !.estimated_liquidations =
                         estimate_liquidation_heatmap(hm_in.current_price, hm_in.oi_usd,
                                                      hm_in.funding_rate, price_range_pct)]
    /\ UNCHANGED hm_in
    /\ UNCHANGED notHm

NextHm ==
    \/ CalculateCompleteHeatmap
    \/ \E price_range_pct \in HmRanges : EstimateHeatmap(price_range_pct)

\* One call of each pure function is pending, with fixed arguments.
InitPureFrag ==
    frag_in = [open_interest_usd |-> 3000, depth_2pct_usd |-> 10, current_funding |-> 1,
               funding_7d |-> <<1, 3, 1, 3>>, spot_price |-> 1000, perp_price |-> 975]
    /\ frag_out = NoFragility

InitPureHm ==
    hm_in = [current_price |-> 95000, oi_usd |-> 5000, funding_rate |-> 60,
             depth_2pct |-> 100, funding_7d |-> <<>>, spot_price |-> 95000]
    /\ hm_out = NoHeatmap

InitSystem == InitRL /\ InitAgg /\ InitFb /\ Init7d /\ InitStore /\ InitColl /\ InitFlush /\ InitHeat

Init == InitSystem /\ InitPureFrag /\ InitPureHm

SpecRL == Init /\ [][NextRL]_vars

SpecAgg == Init /\ [][NextAgg]_vars

SpecFb == Init /\ [][NextFb]_vars

Spec7d == Init /\ [][Next7d]_vars

SpecStore == Init /\ [][NextStore]_vars

SpecColl == Init /\ [][NextColl]_vars

SpecFlush == Init /\ [][NextFlush]_vars

SpecHeat == Init /\ [][NextHeat]_vars

\* The arguments of the pending call are any of the inputs.
InitAnyFrag == InitSystem /\ InitFrag /\ InitPureHm

SpecFrag == InitAnyFrag /\ [][NextFrag]_vars

\* The arguments of the pending call are any of the inputs.
InitAnyHm == InitSystem /\ InitPureFrag /\ InitHm

SpecHm == InitAnyHm /\ [][NextHm]_vars

\* The steps the collector takes by itself happen: the loop test, the end of
\* a sleep, the end of a connection attempt (websockets.connect has an
\* open_timeout) and the end of the iteration over a closed connection. No
\* assumption is made on what the peer sends or when it closes.
SpecCollFair ==
    /\ Init
    /\ [][NextColl]_vars
    /\ WF_vars(ConnectBegin)
    /\ WF_vars(LoopExit)
    /\ WF_vars(ConnectOk \/ ConnectFails)
    /\ WF_vars(LocalCloseEndsStream)
    /\ WF_vars(SleepEnds)

(***************************************************************************)
(* The claims.                                                             *)
(***************************************************************************)
RECURSIVE SumOver(_, _)
SumOver(f, S) ==
    IF S = {} THEN 0
    ELSE LET x == CHOOSE y \in S : TRUE IN f[x] + SumOver(f, S \ {x})

\* The weight admitted by acquire in the rolling window of WindowSeconds that
\* ends now.
RollingWeight == SumOver(recent, Ages)

\* C1: the sum of the endpoint weights admitted by acquire within any rolling
\* 60-second interval never exceeds safe_weight_limit.
C1_RollingWindowWithinLimit == RollingWeight <= SafeWeightLimit

InLoop(t) == rl_pc[t] \in {"acquire", "delay", "wait", "call", "backoff_rl", "backoff_err"}

\* C2: execute_with_retry invokes the operation at most max_retries times (its
\* loop counter stays below max_retries while it runs, so it terminates); when
\* it returns, the result is that of its last invocation, which is the first
\* one that succeeded (every attempt before it failed); when it raises, every
\* one of the max_retries attempts was made and failed and the exception
\* raised is that of the last attempt.
C2_RetryTerminates ==
    \A t \in Tasks :
        /\ rl_invocations[t] <= MaxRetries
        /\ InLoop(t) => rl_attempt[t] < MaxRetries
        /\ rl_pc[t] = "returned" =>
              /\ rl_returned[t] = rl_invocations[t]
              /\ rl_returned[t] = rl_attempt[t] + 1
              /\ rl_last_exception[t] = rl_attempt[t] - 1
        /\ rl_pc[t] = "raised" =>
              /\ rl_returned[t] = -1
              /\ rl_invocations[t] = MaxRetries
              /\ rl_last_exception[t] = MaxRetries - 1

\* One caller has returned the result of its second invocation and another has
\* raised after max_retries failed attempts.
C2_Witness ==
    \E t, u \in Tasks :
        /\ rl_pc[t] = "returned" /\ rl_returned[t] = 2
        /\ rl_pc[u] = "raised" /\ rl_invocations[u] = MaxRetries

\* The priority order of the sources of a price.
Priority == <<"binance", "okx", "kucoin", "coingecko">>

Rank(source) == CHOOSE i \in 1..Len(Priority) : Priority[i] = source

Exchanges == {"binance", "okx", "kucoin"}

\* C3: within one fetch_price_with_fallback call the sources are contacted in
\* the order Binance, OKX, KuCoin, CoinGecko; an exchange is contacted only if
\* it has a symbol mapping for the coin; a source is contacted only after
\* every higher-priority exchange that has a mapping was contacted (and gave
\* no quote); and the source that returns a quote is the last one contacted.
C3_PriorityOrder ==
    \A f \in FetchTasks :
        LET cs == fp_contacts[f]
            coin == fp_coin[f]
        IN /\ \A i, j \in 1..Len(cs) : i < j => Rank(cs[i]) < Rank(cs[j])
           /\ \A i \in 1..Len(cs) :
                 /\ cs[i] \in Exchanges => coin \in SYMBOL_MAPPING(cs[i])
                 /\ \A e \in Exchanges :
                       (Rank(e) < Rank(cs[i]) /\ coin \in SYMBOL_MAPPING(e))
                          => \E k \in 1..(i - 1) : cs[k] = e
           /\ fp_result[f] \in {Priority[i] : i \in 1..Len(Priority)} =>
                 /\ fp_pc[f] = "done"
                 /\ cs # <<>>
                 /\ cs[Len(cs)] = fp_result[f]
                 /\ \A i \in 1..(Len(cs) - 1) : cs[i] # fp_result[f]

\* While another call is in flight, a call for HYPE (no Binance mapping) has
\* gone through OKX and KuCoin and got its quote from CoinGecko.
C3_Witness ==
    \E f, g \in FetchTasks :
        /\ f # g
        /\ fp_pc[g] = "awaiting"
        /\ fp_coin[f] = "HYPE"
        /\ fp_contacts[f] = <<"okx", "kucoin", "coingecko">>
        /\ fp_result[f] = "coingecko"

\* C4: a fetch_price_with_fallback(coin) call made less than cache_ttl seconds
\* after an earlier call for the same coin contacts no source.
C4_NoContactAfterAnyCall ==
    \A f \in FetchTasks : fp_afterCall[f] => fp_contacts[f] = <<>>

\* C4, amended: a call made less than cache_ttl seconds after an earlier call
\* for the same coin got a quote returns the cached quote and contacts no
\* source.
C4_NoContactAfterQuote ==
    \A f \in FetchTasks :
        (fp_afterQuote[f] /\ fp_pc[f] # "ready") =>
            /\ fp_result[f] = "cached"
            /\ fp_pc[f] = "done"
            /\ fp_contacts[f] = <<>>

\* A call made AggTimeStep seconds after a quote for its coin was obtained has
\* returned the cached quote.
C4_Witness ==
    \E f \in FetchTasks :
        /\ fp_afterQuote[f]
        /\ fp_result[f] = "cached"
        /\ clock - lastQuoteAt[fp_coin[f]] >= AggTimeStep

\* The sources fetch_price_with_fallback contacts for a coin when none gives a
\* quote.
SourcesFor(coin) ==
    {e \in Exchanges \ {"kucoin"} : coin \in SYMBOL_MAPPING(e)}
        \cup {e \in {"kucoin"} : coin \in SYMBOL_MAPPING(e)}
        \cup {"coingecko"}

\* C5: no call to fetch_price_with_fallback ends by raising; a call that ends
\* without a quote has contacted every source of its coin and returns None;
\* and fetch_multiple_prices reports the coin of such a call in errors.
C5_AllSourcesFail ==
    /\ \A f \in FetchTasks :
          /\ fp_result[f] # "raised"
          /\ (fp_pc[f] = "done" /\ fp_result[f] \notin {"cached"} \cup Exchanges \cup {"coingecko"}) =>
                /\ fp_result[f] = "None"
                /\ {fp_contacts[f][i] : i \in 1..Len(fp_contacts[f])} = SourcesFor(fp_coin[f])
    /\ batch_pc = "done" =>
          \A i \in 1..Len(batch_coins) :
              fp_result[TaskSeq[i]] = "None" =>
                  \E k \in 1..Len(batch_errors) : batch_errors[k].coin = batch_coins[i]

\* A batch has ended in which Binance, OKX, KuCoin and CoinGecko were all
\* contacted for BTC and none gave a quote, the call returned None, and BTC is
\* reported in errors.
C5_Witness ==
    /\ batch_pc = "done"
    /\ \E i \in 1..Len(batch_coins) :
          /\ batch_coins[i] = "BTC"
          /\ fp_contacts[TaskSeq[i]] = <<"binance", "okx", "kucoin", "coingecko">>
          /\ fp_result[TaskSeq[i]] = "None"
    /\ \E k \in 1..Len(batch_errors) : batch_errors[k].coin = "BTC"

\* Whether a fetch returned a quote (fresh or cached).
GotQuote(r) == r \in {"cached", "coingecko"} \cup Exchanges

InPrices(coin) == coin \in DOMAIN batch_prices

InErrors(coin) == \E k \in 1..Len(batch_errors) : batch_errors[k].coin = coin

\* C6: for every requested coin, fetch_multiple_prices reports it in exactly
\* one of prices and errors: in prices when that coin's fetch returned a
\* quote, in errors otherwise.
C6_EachCoinInExactlyOneOutput ==
    batch_pc = "done" =>
        \A i \in 1..Len(batch_coins) :
            /\ InPrices(batch_coins[i]) # InErrors(batch_coins[i])
            /\ InPrices(batch_coins[i]) = GotQuote(fp_result[TaskSeq[i]])

\* The coins of the failed fetches, in the order of the list.
RECURSIVE FailedCoins(_)
FailedCoins(i) ==
    IF i > Len(batch_coins) THEN <<>>
    ELSE IF GotQuote(fp_result[TaskSeq[i]]) THEN FailedCoins(i + 1)
    ELSE <<batch_coins[i]>> \o FailedCoins(i + 1)

Distinct(coins) == \A i, j \in 1..Len(coins) : coins[i] = coins[j] => i = j

\* C6, amended: fetch_multiple_prices never raises and files every entry of
\* the list under exactly one output: prices holds exactly the coins of the
\* entries whose fetch returned a quote, and errors holds one entry, in list
\* order, for each entry whose fetch returned nothing or raised; so when the
\* coins of the list are pairwise distinct every requested coin is in exactly
\* one of the two outputs, whatever the outcome of the other coins.
C6_EachEntryInExactlyOneOutput ==
    batch_pc = "done" =>
        /\ DOMAIN batch_prices =
              {batch_coins[i] : i \in {j \in 1..Len(batch_coins) : GotQuote(fp_result[TaskSeq[j]])}}
        /\ \A c \in DOMAIN batch_prices : GotQuote(batch_prices[c])
        /\ [k \in 1..Len(batch_errors) |-> batch_errors[k].coin] = FailedCoins(1)
        /\ Distinct(batch_coins) =>
              \A i \in 1..Len(batch_coins) :
                  /\ InPrices(batch_coins[i]) # InErrors(batch_coins[i])
                  /\ InPrices(batch_coins[i]) = GotQuote(fp_result[TaskSeq[i]])

\* A batch of two distinct coins has ended with one coin in prices and the
\* other in errors.
C6_Witness ==
    /\ batch_pc = "done"
    /\ Len(batch_coins) = 2
    /\ Distinct(batch_coins)
    /\ InPrices(batch_coins[1]) /\ ~InErrors(batch_coins[1])
    /\ InErrors(batch_coins[2]) /\ ~InPrices(batch_coins[2])

\* C7: fetch_7d_return never raises to the caller, for any coin and any
\* combination of source failures.
C7_Never7dRaises == \A r \in R7Tasks : r7_result[r] # "raised"

\* C8: after any sequence of add calls the store holds at most max_size
\* events, and they are exactly the most recently added ones in insertion
\* order: the k-th stored event is the one added by the k-th of the last
\* min(add_count, max_size) calls, so each add to a full store evicts the
\* oldest stored event.
C8_FifoEviction ==
    LET held == Len(liquidations)
    IN /\ held <= max_size
       /\ held = IF add_count <= max_size THEN add_count ELSE max_size
       /\ \A i \in 1..held : liquidations[i].n = add_count - held + i

\* A store of capacity two has received more than three events: it is full,
\* the oldest events are gone and the two newest remain.
C8_Witness ==
    /\ max_size = 2
    /\ add_count > max_size + 1
    /\ Len(liquidations) = max_size
    /\ liquidations[1].n = add_count - 1

\* The positions of the stored events a query of the given window (and symbol,
\* unless "none") is about.
InWindow(seq, symbol, cutoff) ==
    {i \in 1..Len(seq) :
        /\ seq[i].event.timestamp > cutoff
        /\ symbol # "none" => seq[i].event.symbol = symbol}

RECURSIVE UsdOver(_, _)
UsdOver(seq, idx) ==
    IF idx = {} THEN 0
    ELSE LET i == CHOOSE j \in idx : TRUE
         IN seq[i].event.usd_value + UsdOver(seq, idx \ {i})

\* What a USD-sum map of get_aggregated must be: its keys are the price levels
\* of the events of that side, and each value the sum over those events.
SideSumsMatch(dict, seq, idx, side) ==
    LET of(level) == {i \in idx : seq[i].event.side = side /\ seq[i].event.price_level = level}
    IN /\ DOMAIN dict = {seq[i].event.price_level : i \in {j \in idx : seq[j].event.side = side}}
       /\ \A level \in DOMAIN dict : dict[level] = UsdOver(seq, of(level))

\* C9: a query leaves the store unchanged and reflects exactly the stored
\* events inside its window: get_recent returns exactly the stored events
\* with timestamp later than now - hours, get_by_symbol those of the symbol
\* among them, and get_aggregated the per-price-level USD sums for LONG and
\* SHORT, the count and the total_usd over exactly those events.
C9_QueriesReflectWindow ==
    q_kind # "none" =>
        LET idx == InWindow(q_before, q_symbol, q_now - q_hours)
        IN /\ liquidations = q_before
           /\ q_kind \in {"recent", "by_symbol"} =>
                 /\ Len(q_result) = Cardinality(idx)
                 /\ {q_result[k] : k \in 1..Len(q_result)} = {q_before[i] : i \in idx}
           /\ q_kind = "aggregated" =>
                 /\ SideSumsMatch(q_result.long_liquidations, q_before, idx, "LONG")
                 /\ SideSumsMatch(q_result.short_liquidations, q_before, idx, "SHORT")
                 /\ q_result.count = Cardinality(idx)
                 /\ q_result.total_usd = UsdOver(q_before, idx)
                 /\ q_result.period_hours = q_hours

\* get_aggregated was called on a store holding two events of the symbol, one
\* of them with a timestamp equal to the cutoff: only the other one is counted.
C9_Witness ==
    /\ q_kind = "aggregated"
    /\ Len(q_before) = 2
    /\ \A i \in 1..2 : q_before[i].event.symbol = q_symbol
    /\ \E i \in 1..2 : q_before[i].event.timestamp = q_now - q_hours
    /\ q_result.count = 1
    /\ q_result.total_usd > 0

\* C10: while the collector has not been stopped, every termination of the
\* streaming connection is followed by a wait of ReconnectDelay seconds
\* before the next connection attempt: every attempt after the first was
\* preceded by that wait.
C10_EveryReconnectWaits ==
    connects >= 2 => gap = ReconnectDelay

\* The stream was closed cleanly by the peer and a new connection attempt has
\* been made while the collector was running.
C10_CleanCloseReconnect ==
    /\ running
    /\ last_end = "clean_close"
    /\ connects >= 2
    /\ coll_pc = "connecting"

\* C11: after stop() is called on a started collector, the collector
\* eventually reaches the stopped state (_connect returns), from whichever
\* state it was in.
C11_StopLeadsToStopped ==
    (coll_pc # "stopped" /\ ~running) ~> (coll_pc = "exited")

\* stop() was called while a connection attempt was in progress: the
\* connection has since opened and the collector waits for a message on it
\* with the running flag cleared.
C11_StoppedWhileConnecting ==
    /\ ~running
    /\ coll_pc = "streaming"
    /\ ws = "open"

\* C12: whenever the handling of an accepted event completes while either
\* trigger is true (the buffer has reached BUFFER_SIZE events, or more than
\* FLUSH_INTERVAL seconds have elapsed since the last flush), the buffer has
\* been drained, for any elapsed time.
C12_FlushedWhenTriggered ==
    h_elapsed >= 0 =>
        ((h_len >= BUFFER_SIZE \/ h_elapsed > 2 * FLUSH_INTERVAL) => h_drained)

\* An accepted event was handled a whole day after the last flush and the
\* buffer was not drained.
C12_DayOldBufferKept ==
    /\ h_elapsed >= HalfSecondsPerDay
    /\ ~h_drained
    /\ buffer # <<>>

\* C13: every event accepted by the parser is passed to liquidation_store.add
\* exactly once and in arrival order, whatever the buffer does: the arguments
\* of the callback are the accepted events in order, the store has counted
\* one add per accepted event, and it holds the latest accepted events, each
\* at the position of its arrival.
C13_StoreGetsEveryAccepted ==
    /\ on_calls = accepted
    /\ add_count = Len(accepted)
    /\ Len(liquidations) = IF Len(accepted) <= max_size THEN Len(accepted) ELSE max_size
    /\ \A i \in 1..Len(liquidations) :
          /\ liquidations[i].n = Len(accepted) - Len(liquidations) + i
          /\ liquidations[i].event = accepted[liquidations[i].n]

\* Two events were accepted, the second one made the buffer flush, and the
\* store holds both in arrival order.
C13_Witness ==
    /\ Len(accepted) = 2
    /\ accepted[1] # accepted[2]
    /\ h_drained
    /\ buffer = <<>>
    /\ Len(liquidations) = 2
    /\ liquidations[1].event = accepted[1]
    /\ liquidations[2].event = accepted[2]

\* The last call fetched (it did not return a cached result) and has returned.
HeatProduced == heat_result.source # "none" /\ ~heat_from_cache

\* C14: get_heatmap produces a result tagged binance_live only when open
\* interest, funding snapshot, funding history, prices and depth were all
\* obtained in that call; if any of them is missing the fallback tagged
\* estimated_fallback is returned.
C14_LiveOnlyWithAllInputs ==
    HeatProduced =>
        /\ heat_result.source = "binance_live" => heat_obtained = HeatInputs
        /\ heat_obtained # HeatInputs => heat_result.source = "estimated_fallback"

\* C14, amended: a result tagged binance_live is produced only when open
\* interest, funding snapshot, prices and depth were all obtained in that
\* call; if any of these four is missing the fallback tagged
\* estimated_fallback is returned. A missing funding history does not prevent
\* the live result.
C14_LiveOnlyWithRequiredInputs ==
    HeatProduced =>
        /\ heat_result.source = "binance_live" =>
              {"oi", "funding", "prices", "depth"} \subseteq heat_obtained
        /\ ~({"oi", "funding", "prices", "depth"} \subseteq heat_obtained) =>
              /\ heat_result.source = "estimated_fallback"
              /\ heat_result.from = "synthetic"

\* A live result was produced by a call that did not obtain the funding
\* history.
C14_Witness ==
    /\ HeatProduced
    /\ heat_result.source = "binance_live"
    /\ heat_obtained = {"oi", "funding", "prices", "depth"}

\* C15: a cached result is served only while it is younger than the TTL of its
\* provenance: HeatCacheTtl seconds for a binance_live result, FallbackTtl
\* seconds for a fallback.
C15_ServedWithinTtl ==
    heat_from_cache =>
        heat_age < (IF heat_result.source = "binance_live" THEN HeatCacheTtl
                    ELSE FallbackTtl)

\* A cached fallback was returned 90 seconds after it was produced.
C15_StaleFallbackServed ==
    /\ heat_from_cache
    /\ heat_result.source = "estimated_fallback"
    /\ heat_age = 90

\* C16: get_heatmap never raises, every result it returns has the keys
\* fragility, estimated_liquidations, major_zones, insight, timestamp and
\* source, and its source is binance_live exactly when it was computed from
\* live inputs and estimated_fallback exactly when it is the synthetic
\* fallback.
C16_AlwaysStructuredResult ==
    /\ heat_pc # "raised"
    /\ heat_result.source # "none" =>
          /\ {"fragility", "estimated_liquidations", "major_zones", "insight",
              "timestamp", "source"} \subseteq heat_result.keys
          /\ heat_result.source = "binance_live" <=> heat_result.from = "live"
          /\ heat_result.source = "estimated_fallback" <=> heat_result.from = "synthetic"

\* A call whose computation raised has returned the fallback.
C16_Witness ==
    /\ HeatProduced
    /\ HeatRequired \subseteq heat_obtained
    /\ heat_result.source = "estimated_fallback"
    /\ "_cache_ttl" \in heat_result.keys

\* C17: calculate_fragility_score does not fail, and L_d, F_sigma, B_z and the
\* score all lie in [0, 100] (0..1000 tenths); L_d is exactly 100 when the
\* depth is 0 and F_sigma is exactly 50 when the history has fewer than 3
\* points, whatever the current funding.
C17_ScoreAndComponentsInRange ==
    frag_out.state # "none" =>
        /\ frag_out.state = "returned"
        /\ \A v \in {frag_out.score, frag_out.L_d, frag_out.F_sigma, frag_out.B_z} :
              0 <= v /\ v <= 1000
        /\ frag_in.depth_2pct_usd = 0 => frag_out.L_d = 1000
        /\ Len(frag_in.funding_7d) < 3 => frag_out.F_sigma = 500

\* A call with depth 0, a history of two points and spot 0 has returned.
C17_Witness ==
    /\ frag_out.state = "returned"
    /\ frag_in.depth_2pct_usd = 0
    /\ frag_in.open_interest_usd > 0
    /\ Len(frag_in.funding_7d) = 2
    /\ frag_in.current_funding = 30
    /\ frag_in.spot_price = 0
    /\ frag_out.score = 667

\* C18: the level returned is the one the thresholds assign to the score
\* returned: Stable iff score <= 25, Caution iff 25 < score <= 50, Fragile iff
\* 50 < score <= 75, Critical iff score > 75.
C18_LevelMatchesReportedScore ==
    frag_out.state = "returned" =>
        /\ frag_out.level = "Stable" <=> frag_out.score <= 250
        /\ frag_out.level = "Caution" <=> (250 < frag_out.score /\ frag_out.score <= 500)
        /\ frag_out.level = "Fragile" <=> (500 < frag_out.score /\ frag_out.score <= 750)
        /\ frag_out.level = "Critical" <=> frag_out.score > 750

\* A call whose mean is 25.04 has returned the score 25.0 with the level
\* Caution.
C18_RoundedAcrossThreshold ==
    /\ frag_out.state = "returned"
    /\ frag_in.open_interest_usd = 12
    /\ frag_in.depth_2pct_usd = 10
    /\ frag_out.score = 250
    /\ frag_out.level = "Caution"

\* The USD value of the bucket at a level, 0 when the dict has no such key.
UsdAt(liqs, level) ==
    IF \E i \in 1..Len(liqs) : liqs[i].price = level
    THEN (CHOOSE z \in {liqs[i] : i \in 1..Len(liqs)} : z.price = level).usd
    ELSE 0

\* C19: for current_price = 95000, oi_usd = 5,000,000,000 and funding_rate =
\* 0.0006 the estimate uses long_ratio 0.60 and short_ratio 0.40, the 10x
\* tier's long liquidation price is 86450, bucketed to 86000, and
\* long_liquidations[86000] = 750,000,000.
C19_ScenarioA ==
    (/\ hm_out.state # "none"
     /\ hm_out.price_range_pct = 20
     /\ hm_in.current_price = 95000 /\ hm_in.oi_usd = 5000 /\ hm_in.funding_rate = 60) =>
        /\ hm_out.estimated_liquidations.long_ratio = 60
        /\ hm_out.estimated_liquidations.short_ratio = 40
        /\ calculate_liquidation_price(95000, 10, TRUE).n
              = 86450 * calculate_liquidation_price(95000, 10, TRUE).d
        /\ LevelOfPrice(calculate_liquidation_price(95000, 10, TRUE)) = 86000
        /\ UsdAt(hm_out.estimated_liquidations.long_liquidations, 86000) = 750 * 10000

\* The call of scenario A has returned, with five long buckets.
C19_Witness ==
    /\ hm_out.state = "returned"
    /\ hm_in.current_price = 95000 /\ hm_in.oi_usd = 5000 /\ hm_in.funding_rate = 60
    /\ Len(hm_out.estimated_liquidations.long_liquidations) = 5
    /\ hm_out.estimated_liquidations.long_liquidations[2] = [price |-> 86000, usd |-> 7500000]

\* C20: the major zones are exactly the buckets of either side whose USD value
\* exceeds $500M, in ascending distance from the current price, of which
\* calculate_complete_heatmap returns the first 5; a bucket that does not
\* exceed $500M is never a major zone.
C20_ZonesExceedThreshold ==
    hm_out.state = "returned" =>
        LET liqs == hm_out.estimated_liquidations
            zones == hm_out.all_zones
        IN /\ \A i \in 1..Len(zones) : zones[i].usd_value > MajorZoneUsd * 10000
           /\ \A i \in 1..Len(liqs.long_liquidations) :
                 liqs.long_liquidations[i].usd > MajorZoneUsd * 10000 =>
                    \E j \in 1..Len(zones) :
                       /\ zones[j].side = "LONG"
                       /\ zones[j].price = liqs.long_liquidations[i].price
           /\ \A i \in 1..Len(liqs.short_liquidations) :
                 liqs.short_liquidations[i].usd > MajorZoneUsd * 10000 =>
                    \E j \in 1..Len(zones) :
                       /\ zones[j].side = "SHORT"
                       /\ zones[j].price = liqs.short_liquidations[i].price
           /\ \A i, j \in 1..Len(zones) :
                 i < j => Abs(zones[i].price - hm_in.current_price)
                             <= Abs(zones[j].price - hm_in.current_price)
           /\ hm_out.major_zones = SubSeq(zones, 1, IF Len(zones) < 5 THEN Len(zones) ELSE 5)

\* A bucket of exactly $500M is among the major zones returned.
C20_ZoneOfExactlyThreshold ==
    /\ hm_out.state = "returned"
    /\ \E i \in 1..Len(hm_out.major_zones) :
          hm_out.major_zones[i].usd_value = MajorZoneUsd * 10000

\* C21: a collector constructed with symbols=None tracks all symbols, so no
\* event is discarded because of its symbol; one constructed with a list
\* discards exactly the events whose symbol is not in the list.
C21_NoFilterKeepsEverySymbol ==
    IF ConstructorSymbols = {}
    THEN h_discarded # "symbol"
    ELSE symbols = ConstructorSymbols

\* The collector constructed without symbols has discarded a DOGEUSDT order
\* for its symbol, and nothing was counted, buffered or stored.
C21_UntrackedSymbolDiscarded ==
    /\ ConstructorSymbols = {}
    /\ h_discarded = "symbol"
    /\ messages = 1
    /\ accepted = <<>> /\ buffer = <<>> /\ liquidations = <<>>

C23_BudgetWrittenUnderLock ==
    rl_last_write.by # "none" => rl_last_write.holder = rl_last_write.by

\* A caller has reset the weight counter while another caller held the lock
\* inside acquire.
C23_ResetWhileLockHeld ==
    \E t, u \in Tasks :
        /\ t # u
        /\ rl_last_write = [by |-> t, holder |-> u]
        /\ lock = u
        /\ rl_pc[u] \in {"delay", "wait"}

\* C30: in every reachable state 0 <= current_minute_weight <=
\* safe_weight_limit, and a caller whose weight would push the counter past
\* the limit is admitted only once the window has been reset.
C30_CounterWithinLimit ==
    /\ [](0 <= current_minute_weight /\ current_minute_weight <= SafeWeightLimit)
    /\ [][\A t \in Tasks :
            (rl_pc[t] = "wait" /\ rl_pc'[t] = "call") =>
                /\ minute_start' = now
                /\ minute_start' # minute_start
                /\ current_minute_weight' = rl_weight[t]]_vars

\* A caller whose weight does not fit sleeps inside acquire while the counter
\* stands at the limit, in a window that is not the first.
C30_Witness ==
    \E t \in Tasks :
        /\ rl_pc[t] = "wait"
        /\ current_minute_weight = SafeWeightLimit
        /\ minute_start > 0

\* C27: for every symbol S the result of get_heatmap(S), live, cached or
\* fallback, carries symbol = S together with data fetched or cached for S.
C27_ResultDescribesRequestedSymbol ==
    heat_result.source # "none" =>
        /\ heat_result.symbol = heat_symbol
        /\ heat_result.data_of = heat_symbol

\* get_heatmap("ETHUSDT") has returned a live result for ETHUSDT that carries
\* the symbol BTCUSDT.
C27_LiveResultLabelledBtc ==
    /\ heat_symbol = "ETHUSDT"
    /\ heat_result.source = "binance_live"
    /\ heat_result.data_of = "ETHUSDT"
    /\ heat_result.symbol = "BTCUSDT"

\* The weights, in percent, of the tiers in S.
TierWeights(S) == SumOver([k \in 1..Len(LEVERAGE_DISTRIBUTION) |-> LEVERAGE_DISTRIBUTION[k].weight], S)

\* The tiers whose liquidation price lies strictly between the current price
\* and the bound of the range, on each side.
StrictLongTiers ==
    {k \in 1..Len(LEVERAGE_DISTRIBUTION) :
        LET p == calculate_liquidation_price(hm_in.current_price,
                                             LEVERAGE_DISTRIBUTION[k].leverage, TRUE)
        IN /\ (100 - hm_out.price_range_pct) * hm_in.current_price * p.d < 100 * p.n
           /\ p.n < hm_in.current_price * p.d}

StrictShortTiers ==
    {k \in 1..Len(LEVERAGE_DISTRIBUTION) :
        LET p == calculate_liquidation_price(hm_in.current_price,
                                             LEVERAGE_DISTRIBUTION[k].leverage, FALSE)
        IN /\ hm_in.current_price * p.d < p.n
           /\ 100 * p.n < (100 + hm_out.price_range_pct) * hm_in.current_price * p.d}

\* C25: a tier contributes to the heatmap only if its liquidation level lies
\* strictly between the current price and the bound of the price range, a
\* level equal to the bound or to the current price contributes nothing, and
\* each contributing tier adds side_OI * tier_weight to its nearest-$1000
\* bucket.
C25_OnlyStrictlyInsideContributes ==
    hm_out.state \in {"estimated", "returned"} =>
        LET est == hm_out.estimated_liquidations
        IN /\ est.total_long_at_risk
                 = hm_in.oi_usd * est.long_ratio * TierWeights(StrictLongTiers)
           /\ est.total_short_at_risk
                 = hm_in.oi_usd * est.short_ratio * TierWeights(StrictShortTiers)
           /\ \A i \in 1..Len(est.long_liquidations) :
                 est.long_liquidations[i].usd
                    = hm_in.oi_usd * est.long_ratio
                      * TierWeights({k \in StrictLongTiers :
                           LevelOfPrice(calculate_liquidation_price(
                               hm_in.current_price, LEVERAGE_DISTRIBUTION[k].leverage, TRUE))
                           = est.long_liquidations[i].price})
           /\ \A i \in 1..Len(est.short_liquidations) :
                 est.short_liquidations[i].usd
                    = hm_in.oi_usd * est.short_ratio
                      * TierWeights({k \in StrictShortTiers :
                           LevelOfPrice(calculate_liquidation_price(
                               hm_in.current_price, LEVERAGE_DISTRIBUTION[k].leverage, FALSE))
                           = est.short_liquidations[i].price})

\* With a range of 18% the 5x long tier, whose liquidation price 77900 equals
\* the lower bound, has contributed 300,000,000 to the bucket 78000.
C25_LevelOnBoundContributes ==
    /\ hm_out.state = "estimated"
    /\ hm_out.price_range_pct = 18
    /\ hm_in.current_price = 95000 /\ hm_in.oi_usd = 5000 /\ hm_in.funding_rate = 60
    /\ hm_out.estimated_liquidations.long_liquidations[1] = [price |-> 78000, usd |-> 3000000]

\* C26: in every result of calculate_complete_heatmap the headline of the
\* insight is the one of the fragility level: CRITICAL iff Critical, FRAGILE
\* iff Fragile, CAUTION iff Caution, STABLE iff Stable, the scores 25, 50 and
\* 75 included.
C26_HeadlineMatchesLevel ==
    hm_out.state = "returned" =>
        /\ hm_out.insight.summary = "CRITICAL" <=> hm_out.fragility.level = "Critical"
        /\ hm_out.insight.summary = "FRAGILE" <=> hm_out.fragility.level = "Fragile"
        /\ hm_out.insight.summary = "CAUTION" <=> hm_out.fragility.level = "Caution"
        /\ hm_out.insight.summary = "STABLE" <=> hm_out.fragility.level = "Stable"

\* A result whose score is exactly 50 has the level Caution and the headline
\* FRAGILE.
C26_HeadlineAboveLevel ==
    /\ hm_out.state = "returned"
    /\ hm_out.fragility.score = 500
    /\ hm_out.fragility.level = "Caution"
    /\ hm_out.insight.summary = "FRAGILE"

\* C28: for current_price > 0, calculate_complete_heatmap places all five
\* tiers of both sides inside the range, so the two totals add up to oi_usd,
\* neither total exceeds twice the other, and the imbalance line never appears.
C28_TotalsAddUpNoImbalance ==
    (hm_out.state = "returned" /\ hm_in.current_price > 0) =>
        LET est == hm_out.estimated_liquidations
        IN /\ \A k \in 1..Len(LEVERAGE_DISTRIBUTION) :
                 /\ InLongRange(calculate_liquidation_price(
                        hm_in.current_price, LEVERAGE_DISTRIBUTION[k].leverage, TRUE),
                        hm_in.current_price, 20)
                 /\ InShortRange(calculate_liquidation_price(
                        hm_in.current_price, LEVERAGE_DISTRIBUTION[k].leverage, FALSE),
                        hm_in.current_price, 20)
           /\ est.total_long_at_risk + est.total_short_at_risk = hm_in.oi_usd * 10000
           /\ est.total_long_at_risk <= 2 * est.total_short_at_risk
           /\ est.total_short_at_risk <= 2 * est.total_long_at_risk
           /\ hm_out.insight.imbalance = "none"

\* A result for the most one-sided ratio: the longs at risk are one and a half
\* times the shorts, and there is no imbalance line.
C28_Witness ==
    /\ hm_out.state = "returned"
    /\ hm_in.current_price = 95000 /\ hm_in.oi_usd = 50000 /\ hm_in.funding_rate = 60
    /\ hm_out.estimated_liquidations.total_long_at_risk = 300000000
    /\ hm_out.estimated_liquidations.total_short_at_risk = 200000000
    /\ hm_out.insight.imbalance = "none"

InFbPrices(coin) == coin \in DOMAIN fb_prices

InFbErrors(coin) == \E k \in 1..Len(fb_errors) : fb_errors[k].coin = coin

\* C29: in the result of fetch_multiple_prices_with_fallbacks no coin is both
\* in prices and in errors, so a coin recovered by the KuCoin or CoinGecko
\* retry is not reported as an error, and every requested coin is in exactly
\* one of the two outputs.
C29_NoCoinInBothOutputs ==
    fb_pc = "done" =>
        \A i \in 1..Len(fb_coins) : InFbPrices(fb_coins[i]) # InFbErrors(fb_coins[i])

\* A call for pairwise distinct coins has returned a coin that a retry
\* recovered in prices and in errors.
C29_RecoveredCoinStillInErrors ==
    /\ fb_pc = "done"
    /\ Distinct(fb_coins)
    /\ \E c \in fb_recovered : InFbPrices(c) /\ InFbErrors(c)

RECURSIVE Flatten(_)
Flatten(batches) ==
    IF batches = <<>> THEN <<>> ELSE Head(batches) \o Flatten(Tail(batches))

\* The event the handler has parsed and not yet appended to the buffer.
NotYetAppended == IF fl_pc["handler"] = "append" THEN fl_liq ELSE <<>>

====
